---- MODULE Spec2Model ----
(***************************************************************************)
(* Document/index engine of gokvkit: the transactional write path          *)
(* (transaction.persistCommand and its helpers), the KV transaction it     *)
(* runs in (badgerKV.Tx) and the reads that observe it.                    *)
(*                                                                         *)
(* A document is a function from field names to values (Nil = field        *)
(* absent); its bytes are the list of its present fields.  The KV store is *)
(* a function from keys to values; a write transaction keeps its own       *)
(* writes (pending) until the callback returns.                            *)
(*                                                                         *)
(* Specifications: Spec (one caller, the write path and its reads),        *)
(* SpecCascade (the cascade delete hook of the CRM), SpecConcurrent (two   *)
(* callers of DB.Tx), SpecStream (the change stream of saveDocument and    *)
(* persistCollection), SpecQuery (the optimizer and queryScan), SpecBuild  *)
(* (writes, backfill and queries while an index is being built),           *)
(* SpecForEach (the order in which ForEach hands documents over),          *)
(* SpecOrder (the sort and the page of a query), SpecAggregate (group by   *)
(* and the aggregates of a query), SpecCancel (a scan whose context is     *)
(* cancelled), SpecSchema (the construction of a collection schema and the *)
(* edits of its index set), SpecHooks (the persist hooks of a command and  *)
(* what they are called with), SpecGroup (the groups of                    *)
(* Documents.GroupBy), SpecHandler (a scan whose handler asks to stop),    *)
(* SpecSetAll (the two forms of Document.SetAll), SpecDiff (getIndexDiff). *)
(***************************************************************************)
EXTENDS Integers, Sequences, FiniteSets, TLC

\* ------------------------------------------------------------------ bounds
\* commands issued over the whole run (caps the clock / time.Now())
MaxCmds == 3
\* ids ksuid.New() can still hand out to Create with an empty docID
MaxFresh == 1

\* ------------------------------------------------------------- input sets
Nil == "nil"
User == "user"
Task == "task"
Cdc == "cdc"
\* docIDs chosen by callers
CallerIDs == {"a", "b"}
\* docIDs generated by ksuid.New()
FreshIDs == {"k" \o ToString(i) : i \in 1..MaxFresh}
DocIDs == CallerIDs \cup FreshIDs
Emails == {"x", "y"}
Names == {"n"}
\* docIDs of the task collection
TaskIDs == {"t1", "t2"}
Fields == <<"id", "email", "name", "user">>
FieldSet == {Fields[i] : i \in 1..Len(Fields)}

Create == "create"
Set == "set"
Update == "update"
Delete == "delete"

\* ------------------------------------------------------------- documents
\* model.NewDocument: the empty object {}
NewDocument == [f \in FieldSet |-> Nil]

\* a nil *model.Document: no document at all (command.Before of a command
\* persistCommand has not read the before image for)
NoDocument == [f \in FieldSet |-> "null"]

\* Document.Bytes: the raw JSON, here the present fields in document order
RECURSIVE BytesFrom(_, _)
BytesFrom(d, i) ==
    IF i > Len(Fields) THEN <<>>
    ELSE (IF d[Fields[i]] = Nil THEN <<>> ELSE << <<Fields[i], d[Fields[i]]>> >>)
         \o BytesFrom(d, i + 1)

Bytes(d) == BytesFrom(d, 1)

\* model.NewDocumentFromBytes: parse the raw JSON back into a document
NewDocumentFromBytes(bits) ==
    [f \in FieldSet |->
        IF \E i \in 1..Len(bits) : bits[i][1] = f
        THEN bits[CHOOSE i \in 1..Len(bits) : bits[i][1] = f][2]
        ELSE Nil]

\* Document.Clone
Clone(d) == NewDocumentFromBytes(Bytes(d))

\* Document.SetAll: every entry of the (flattened) map is written
SetAll(d, values) ==
    [f \in FieldSet |-> IF f \in DOMAIN values THEN values[f] ELSE d[f]]

\* the documents callers pass to Set / Create
UserDocs == {[id |-> i, email |-> e, name |-> n, user |-> Nil] :
                i \in CallerIDs, e \in Emails, n \in Names}
\* the documents Create receives without a docID
NewUserDocs == {[id |-> Nil, email |-> e, name |-> n, user |-> Nil] :
                   e \in Emails, n \in Names}
\* the documents of the task collection: a task refers to its user
TaskDocs == {[id |-> t, email |-> Nil, name |-> Nil, user |-> u] :
                t \in TaskIDs, u \in CallerIDs}
\* the patches callers pass to Update
Patches == {[email |-> e] : e \in Emails}

\* -------------------------------------------------------------- schema
\* x-indexing of the user collection: primary(_id), unique(email), name
PrimaryIdx == [name |-> "primary", fields |-> <<"id">>, primary |-> TRUE,
               unique |-> TRUE, building |-> FALSE]
EmailIdx == [name |-> "email_idx", fields |-> <<"email">>, primary |-> FALSE,
             unique |-> TRUE, building |-> FALSE]
NameIdx == [name |-> "name_idx", fields |-> <<"name">>, primary |-> FALSE,
            unique |-> FALSE, building |-> FALSE]

\* x-indexing of the task collection: primary(_id), user
TaskUserIdx == [name |-> "user_idx", fields |-> <<"user">>, primary |-> FALSE,
                unique |-> FALSE, building |-> FALSE]
TaskIndexing == {PrimaryIdx, TaskUserIdx}

\* collectionSchema.Indexing
Indexing == {PrimaryIdx, EmailIdx, NameIdx}

\* collectionSchema.PrimaryIndex
PrimaryIndex == PrimaryIdx

\* collectionSchema.PrimaryKey: first field of the primary index
PrimaryKey == PrimaryIndex.fields[1]

\* collectionSchema.SetPrimaryKey
SetPrimaryKey(d, id) == SetAll(d, [f \in {PrimaryKey} |-> id])

\* ------------------------------------------------------------ key codec
\* indexing.SeekPrefix(collection, index, values).Path(): the key up to the
\* last field of the index, without the docID
SeekPrefix(c, idx, values) ==
    LET m == CHOOSE n \in 0..Len(idx.fields) :
                /\ \A i \in 1..n : idx.fields[i] \in DOMAIN values
                /\ n < Len(idx.fields) => idx.fields[n + 1] \notin DOMAIN values
    IN  <<c, idx.name, [i \in 1..m |-> values[idx.fields[i]]]>>

\* ...SetDocumentID(docID).Path(): the full key
FullKey(pfx, docID) == Append(pfx, docID)

\* bytes.HasPrefix(key, prefix) of the iterator
HasPrefix(key, pfx) ==
    /\ Len(pfx) <= Len(key)
    /\ \A i \in 1..Len(pfx) :
          IF i = 3 THEN /\ Len(pfx[3]) <= Len(key[3])
                        /\ SubSeq(key[3], 1, Len(pfx[3])) = pfx[3]
                        /\ Len(pfx) > 3 => Len(pfx[3]) = Len(key[3])
          ELSE key[i] = pfx[i]

\* split := bytes.Split(key, "\x00"); id := split[len(split)-1]
TrailingDocID(key) == key[Len(key)]

\* the primary key of a docID
PrimaryPath(c, docID) ==
    FullKey(SeekPrefix(c, PrimaryIndex, [f \in {PrimaryKey} |-> docID]), docID)

\* ---------------------------------------------------------- KV transaction
\* A transaction handle holds its own writes: w maps the keys it set to their
\* values, d is the set of keys it deleted.
NoWrites == [w |-> <<>>, d |-> {}]

\* kv.Setter.Set on the transaction handle
TxSet(p, key, value) ==
    [w |-> [k \in DOMAIN p.w \cup {key} |-> IF k = key THEN value ELSE p.w[k]],
     d |-> p.d \ {key}]

\* kv.Deleter.Delete on the transaction handle
TxDelete(p, key) ==
    [w |-> [k \in DOMAIN p.w \ {key} |-> p.w[k]],
     d |-> p.d \cup {key}]

\* kv.Getter.Get on the transaction handle finds the key: the transaction's
\* own writes first, then the store it was opened on
TxHas(store, p, key) ==
    key \in DOMAIN p.w \/ (key \notin p.d /\ key \in DOMAIN store)

\* kv.Getter.Get on the transaction handle: the value of a key it finds
TxGet(store, p, key) == IF key \in DOMAIN p.w THEN p.w[key] ELSE store[key]

\* what a committed transaction leaves in the store
ApplyWrites(store, p) ==
    [k \in {j \in DOMAIN store \cup DOMAIN p.w : TxHas(store, p, j)} |->
        TxGet(store, p, k)]

\* badgerKV.Tx had it committed whatever fn returned
KVTxCommitsOnError(readOnly, store, p, fnErr) ==
    IF readOnly THEN store ELSE ApplyWrites(store, p)

\* badgerKV.Tx had the commit lost the deletes of fn
KVTxDropsDeletes(readOnly, store, p, fnErr) ==
    IF readOnly THEN store
    ELSE IF fnErr THEN store
    ELSE ApplyWrites(store, [p EXCEPT !.d = {}])

\* badgerKV.Tx(readOnly, fn): db.View never writes; db.Update commits the
\* writes of fn when fn returns nil and discards them when it returns an error
KVTx(readOnly, store, p, fnErr) ==
    IF readOnly THEN store
    ELSE IF fnErr THEN store
    ELSE ApplyWrites(store, p)

\* the keys an iterator opened with IterOpts{Prefix} walks over
IterKeys(store, pfx) == {k \in DOMAIN store : HasPrefix(k, pfx)}

\* ------------------------------------------------------------------ reads
\* the result of a Get: the document, or an error (found = FALSE)
NotFound == [found |-> FALSE, doc |-> NewDocument]

\* DB.Get: a read transaction of its own on the primary index
DBGet(store, c, id) ==
    IF PrimaryPath(c, id) \in DOMAIN store
    THEN [found |-> TRUE, doc |-> NewDocumentFromBytes(store[PrimaryPath(c, id)])]
    ELSE NotFound

\* transaction.Get: the primary index read through the transaction handle
TGet(store, p, c, id) ==
    IF TxHas(store, p, PrimaryPath(c, id))
    THEN [found |-> TRUE,
          doc |-> NewDocumentFromBytes(TxGet(store, p, PrimaryPath(c, id)))]
    ELSE NotFound

\* the errors of the model
Ok == "ok"
ErrValidation == "validation"
ErrDuplicate == "duplicate"
ErrHook == "hook"

\* --------------------------------------------------------------- queries
\* a where clause: [field, op, value]
WhereOps == {"==", "!=", ">", ">=", "<", "<=", "in", "contains"}

\* Document.GetFloat / cast.ToFloat64 on the values of the model: "1", "2"
\* and "3" are numbers; none of the others parses as one, so each converts
\* to 0
GetFloat(v) ==
    CASE v = "1" -> 1
      [] v = "2" -> 2
      [] v = "3" -> 3
      [] OTHER -> 0

\* strings.Contains(d.GetString(field), value): an absent field reads as the
\* empty string; the values of the model are single characters
Contains(v, sub) == v # Nil /\ v = sub

\* one case of the switch of Document.Where
WhereClause(d, w) ==
    CASE w.op = "==" -> d[w.field] = w.value
      [] w.op = "!=" -> d[w.field] # w.value
      [] w.op = ">"  -> ~(GetFloat(d[w.field]) <= GetFloat(w.value))
      [] w.op = ">=" -> ~(GetFloat(d[w.field]) < GetFloat(w.value))
      [] w.op = "<"  -> ~(GetFloat(d[w.field]) >= GetFloat(w.value))
      [] w.op = "<=" -> ~(GetFloat(d[w.field]) > GetFloat(w.value))
      [] w.op = "in" -> d[w.field] \in w.value
      [] w.op = "contains" -> Contains(d[w.field], w.value)

\* Document.Where: the document passes every clause
Where(d, wheres) == \A i \in 1..Len(wheres) : WhereClause(d, wheres[i])

\* the result of a scan: an error, or the documents handed to the handler
ErrNotFound == "notfound"

\* queryScan had it read the committed store instead of the transaction handle
queryScanCommitted(store, p, c, idx, matched, wheres) ==
    LET keys == IterKeys(store, SeekPrefix(c, idx, matched))
        docOf(k) == IF idx.primary THEN NewDocumentFromBytes(store[k])
                    ELSE DBGet(store, c, TrailingDocID(k)).doc
        failed == \E k \in keys :
                     ~idx.primary /\ ~DBGet(store, c, TrailingDocID(k)).found
    IN  [err |-> IF failed THEN ErrNotFound ELSE Ok,
         docs |-> IF failed THEN {}
                  ELSE {docOf(k) : k \in {j \in keys : Where(docOf(j), wheres)}}]

\* transaction.queryScan after the optimizer chose `idx` and the matched
\* values: the iterator of the transaction handle walks the keys under the
\* prefix; a key of the primary index carries the document, a key of a
\* secondary index carries the docID and the document is read with t.Get,
\* whose error ends the scan; the documents that pass Where reach the handler
queryScan(store, p, c, idx, matched, wheres) ==
    LET view == ApplyWrites(store, p)
        keys == IterKeys(view, SeekPrefix(c, idx, matched))
        docOf(k) == IF idx.primary THEN NewDocumentFromBytes(view[k])
                    ELSE TGet(store, p, c, TrailingDocID(k)).doc
        failed == \E k \in keys :
                     ~idx.primary /\ ~TGet(store, p, c, TrailingDocID(k)).found
    IN  [err |-> IF failed THEN ErrNotFound ELSE Ok,
         docs |-> IF failed THEN {}
                  ELSE {docOf(k) : k \in {j \in keys : Where(docOf(j), wheres)}}]

\* ------------------------------------------------------------ optimizer
\* the planner had it taken every index, the building ones included
getEveryIndex(indexes) == indexes

\* getReadyIndexes: the indexes that are not being built
getReadyIndexes(indexes) == {idx \in indexes : ~idx.building}

EqOps == {"=="}
RangeOps == {">", ">=", "<", "<="}

\* the clauses of a where list on a field with an operator of a class
ClausesOn(wheres, f, ops) ==
    {wheres[i] : i \in {j \in 1..Len(wheres) :
                           wheres[j].field = f /\ wheres[j].op \in ops}}

\* the length m of the longest prefix f1..fm of the fields of an index such
\* that every fi has an equality clause
PrefixLen(idx, wheres) ==
    CHOOSE m \in 0..Len(idx.fields) :
        /\ \A i \in 1..m : ClausesOn(wheres, idx.fields[i], EqOps) # {}
        /\ m < Len(idx.fields) =>
              ClausesOn(wheres, idx.fields[m + 1], EqOps) = {}

\* the range clauses on the field that follows the equality prefix
SeekClauses(idx, wheres) ==
    IF PrefixLen(idx, wheres) < Len(idx.fields)
    THEN ClausesOn(wheres, idx.fields[PrefixLen(idx, wheres) + 1], RangeOps)
    ELSE {}

\* the plans on one index: the matched values are the values of the equality
\* clauses on the prefix; one boundary value is recorded when the next field
\* has a range clause; reverse iff that clause is < or <=
PlansOn(idx, wheres) ==
    LET m == PrefixLen(idx, wheres)
        prefix == {idx.fields[i] : i \in 1..m}
        values == {mv \in [prefix -> {w.value : w \in UNION {ClausesOn(wheres, f, EqOps) :
                                                      f \in prefix}}] :
                      \A f \in prefix :
                          \E w \in ClausesOn(wheres, f, EqOps) : w.value = mv[f]}
        plan(mv, sf, sv, rev) ==
            [index |-> idx, matched_fields |-> SubSeq(idx.fields, 1, m),
             matched_values |-> mv, seek_fields |-> sf, seek_values |-> sv,
             reverse |-> rev]
    IN  IF SeekClauses(idx, wheres) = {}
        THEN {plan(mv, <<>>, <<>>, FALSE) : mv \in values}
        ELSE {plan(mv, <<w.field>>, [f \in {w.field} |-> w.value],
                   w.op \in {"<", "<="}) :
                 mv \in values, w \in SeekClauses(idx, wheres)}

\* the fallback: a full scan of the primary index
PrimaryScan(indexes) ==
    [index |-> CHOOSE idx \in indexes : idx.primary, matched_fields |-> <<>>,
     matched_values |-> <<>>, seek_fields |-> <<>>, seek_values |-> <<>>,
     reverse |-> FALSE]

\* Optimizer.Optimize had it ranked the primary index like any other
OptimizeNoTieBreak(indexes, wheres) ==
    LET matching == {idx \in indexes :
                        PrefixLen(idx, wheres) > 0 \/ SeekClauses(idx, wheres) # {}}
        best == {idx \in matching :
                    \A other \in matching :
                        PrefixLen(other, wheres) <= PrefixLen(idx, wheres)}
    IN  IF matching = {} THEN {PrimaryScan(indexes)}
        ELSE UNION {PlansOn(idx, wheres) : idx \in best}

\* Optimizer.Optimize had it recorded no seek
OptimizeNoSeek(indexes, wheres) ==
    {[q EXCEPT !.seek_fields = <<>>, !.seek_values = <<>>, !.reverse = FALSE] :
        q \in OptimizeNoTieBreak(indexes, wheres)}

\* Optimizer.Optimize had it scanned any index when none matches
OptimizeNoFallback(indexes, wheres) ==
    IF \A idx \in indexes :
           PrefixLen(idx, wheres) = 0 /\ SeekClauses(idx, wheres) = {}
    THEN UNION {PlansOn(idx, wheres) : idx \in indexes}
    ELSE OptimizeNoSeek(indexes, wheres) \cup OptimizeNoTieBreak(indexes, wheres)

\* Optimizer.Optimize on the ready indexes of a collection: the set of plans
\* it may return.  An index matches when it has an equality prefix or a seek;
\* among the matching ones the longest prefix wins and, on equal length, a
\* secondary index wins over the primary one; when none matches the plan is
\* the full scan of the primary index
Optimize(indexes, wheres) ==
    LET matching == {idx \in indexes :
                        PrefixLen(idx, wheres) > 0 \/ SeekClauses(idx, wheres) # {}}
        longest == {idx \in matching :
                       \A other \in matching :
                           PrefixLen(other, wheres) <= PrefixLen(idx, wheres)}
        best == IF \E idx \in longest : ~idx.primary
                THEN {idx \in longest : ~idx.primary}
                ELSE longest
    IN  IF matching = {} THEN {PrimaryScan(indexes)}
        ELSE UNION {PlansOn(idx, wheres) : idx \in best}

\* --------------------------------------------------------------- hooks
\* db.persistHooks.Get("user"): one before hook and one after hook, in
\* registration order
PersistHooks == <<[name |-> "h_before", before |-> TRUE],
                  [name |-> "h_after", before |-> FALSE]>>
HookNames == {PersistHooks[i].name : i \in 1..Len(PersistHooks)}
NoHook == "none"

\* applyPersistHooks had it dropped the error of an after hook
applyPersistHooksBeforeOnly(before, failing) ==
    /\ before
    /\ \E i \in 1..Len(PersistHooks) :
          PersistHooks[i].before = before /\ PersistHooks[i].name = failing

\* transaction.applyPersistHooks: the hooks whose Before flag equals `before`
\* run in order; the first error is returned.  `failing` is the hook whose
\* Func returns an error on this call (NoHook: none does).
applyPersistHooks(before, failing) ==
    \E i \in 1..Len(PersistHooks) :
        PersistHooks[i].before = before /\ PersistHooks[i].name = failing

\* the properties the JSON schema of a collection requires
Required(c) == IF c = Task THEN {"id", "user"} ELSE {"id", "email", "name"}

\* CollectionSchema.ValidateCommand: the post-image of Set/Create/Update must
\* satisfy the JSON schema (every property required), and a command needs a
\* docID
ValidateCommand(command) ==
    /\ command.docID # Nil
    /\ command.action # Delete =>
          \A f \in Required(command.collection) : command.after[f] # Nil

\* ------------------------------------------------------------ write path

\* flat.Flatten(doc.Value()): the present fields of a document, by path
Flatten(d) == [f \in {g \in FieldSet : d[g] # Nil} |-> d[f]]

\* setDocument had it stored command.Before.Bytes()
setDocumentStoresBefore(p, command) ==
    IF ~ValidateCommand(command)
    THEN [p |-> p, err |-> ErrValidation, command |-> command]
    ELSE [p |-> TxSet(p, PrimaryPath(command.collection, command.docID),
                      Bytes(command.before)),
          err |-> Ok, command |-> command]

\* transaction.setDocument
setDocument(p, command) ==
    IF ~ValidateCommand(command)
    THEN [p |-> p, err |-> ErrValidation, command |-> command]
    ELSE [p |-> TxSet(p, PrimaryPath(command.collection, command.docID),
                      Bytes(command.after)),
          err |-> Ok, command |-> command]

\* transaction.updateDocument: the patch is merged into the before image
updateDocument(p, command) ==
    LET store(merged) ==
            IF ~ValidateCommand(merged)
            THEN [p |-> p, err |-> ErrValidation, command |-> merged]
            ELSE [p |-> TxSet(p, PrimaryPath(merged.collection, merged.docID),
                              Bytes(merged.after)),
                  err |-> Ok, command |-> merged]
    IN  store([command EXCEPT
                 !.after = SetAll(Clone(command.before), Flatten(command.after))])

\* createDocument had it built the primary key from the docID it was called
\* with, before ksuid.New() replaced it
createDocumentStaleKey(p, command, ksuid) ==
    LET store(named) ==
            IF ~ValidateCommand(named)
            THEN [p |-> p, err |-> ErrValidation, command |-> named]
            ELSE [p |-> TxSet(p, PrimaryPath(named.collection, command.docID),
                              Bytes(named.after)),
                  err |-> Ok, command |-> named]
    IN  store(IF command.docID = Nil
              THEN [command EXCEPT !.docID = ksuid,
                                   !.after = SetPrimaryKey(command.after, ksuid)]
              ELSE command)

\* transaction.createDocument: an empty docID is replaced by ksuid.New()
createDocument(p, command, ksuid) ==
    LET store(named) ==
            IF ~ValidateCommand(named)
            THEN [p |-> p, err |-> ErrValidation, command |-> named]
            ELSE [p |-> TxSet(p, PrimaryPath(named.collection, named.docID),
                              Bytes(named.after)),
                  err |-> Ok, command |-> named]
    IN  store(IF command.docID = Nil
              THEN [command EXCEPT !.docID = ksuid,
                                   !.after = SetPrimaryKey(command.after, ksuid)]
              ELSE command)

\* deleteDocument had it validated the command and left the key in place
deleteDocumentKeepsKey(p, command) ==
    IF ~ValidateCommand(command)
    THEN [p |-> p, err |-> ErrValidation, command |-> command]
    ELSE [p |-> p, err |-> Ok, command |-> command]

\* transaction.deleteDocument
deleteDocument(p, command) ==
    IF ~ValidateCommand(command)
    THEN [p |-> p, err |-> ErrValidation, command |-> command]
    ELSE [p |-> TxDelete(p, PrimaryPath(command.collection, command.docID)),
          err |-> Ok, command |-> command]

\* the unique scan of updateSecondaryIndex: t.db.kv.Tx(false, ...) opens a
\* transaction of its own on the store and walks the keys under the prefix of
\* the after image; a key of another docID is a duplicate
UniqueScan(store, idx, command) ==
    \E k \in IterKeys(store, SeekPrefix(command.collection, idx, command.after)) :
        TrailingDocID(k) # command.docID

\* updateSecondaryIndex had it made room on a unique index by deleting the
\* keys other documents hold under the prefix of the after image
updateSecondaryIndexEvicts(store, p, idx, command) ==
    LET others == {k \in IterKeys(store, SeekPrefix(command.collection, idx,
                                                    command.after)) :
                      TrailingDocID(k) # command.docID}
        evict(cleared) ==
            IF idx.unique
            THEN [w |-> [k \in DOMAIN cleared.w \ others |-> cleared.w[k]],
                  d |-> cleared.d \cup others]
            ELSE cleared
        write(cleared, afterKey) ==
            IF command.action = Delete
            THEN [p |-> cleared, err |-> Ok, command |-> command]
            ELSE [p |-> TxSet(evict(cleared), afterKey, command.docID),
                  err |-> Ok, command |-> command]
    IN  IF idx.primary THEN [p |-> p, err |-> Ok, command |-> command]
        ELSE write(IF command.action # Delete /\ command.before = NoDocument
                   THEN p
                   ELSE TxDelete(p, FullKey(SeekPrefix(command.collection, idx,
                                                       command.before),
                                            command.docID)),
                   FullKey(SeekPrefix(command.collection, idx, command.after),
                           command.docID))

\* updateSecondaryIndex had it set the key of the after image first and deleted
\* the key of the before image last
updateSecondaryIndexDeleteLast(store, p, idx, command) ==
    LET write(beforeKey, afterKey) ==
            IF command.action = Delete
            THEN [p |-> TxDelete(p, beforeKey), err |-> Ok, command |-> command]
            ELSE IF idx.unique /\ UniqueScan(store, idx, command)
            THEN [p |-> p, err |-> ErrDuplicate, command |-> command]
            ELSE [p |-> IF command.before = NoDocument
                        THEN TxSet(p, afterKey, command.docID)
                        ELSE TxDelete(TxSet(p, afterKey, command.docID), beforeKey),
                  err |-> Ok, command |-> command]
    IN  IF idx.primary THEN [p |-> p, err |-> Ok, command |-> command]
        ELSE write(FullKey(SeekPrefix(command.collection, idx, command.before),
                           command.docID),
                   FullKey(SeekPrefix(command.collection, idx, command.after),
                           command.docID))

\* transaction.updateSecondaryIndex.  Set, Update and Create delete the key of
\* the before image only `if command.Before != nil`
updateSecondaryIndex(store, p, idx, command) ==
    LET \* cleared: the handle after the key of the before image is deleted
        write(cleared, afterKey) ==
            IF command.action = Delete
            THEN [p |-> cleared, err |-> Ok, command |-> command]
            ELSE IF idx.unique /\ UniqueScan(store, idx, command)
            THEN [p |-> cleared, err |-> ErrDuplicate, command |-> command]
            ELSE [p |-> TxSet(cleared, afterKey, command.docID),
                  err |-> Ok, command |-> command]
    IN  IF idx.primary THEN [p |-> p, err |-> Ok, command |-> command]
        ELSE write(IF command.action # Delete /\ command.before = NoDocument
                   THEN p
                   ELSE TxDelete(p, FullKey(SeekPrefix(command.collection, idx,
                                                       command.before),
                                            command.docID)),
                   FullKey(SeekPrefix(command.collection, idx, command.after),
                           command.docID))

\* the loop of persistCommand over Indexing(); `order` is the order in which
\* the map of indexes is ranged over; the first error ends it
RECURSIVE IndexLoop(_, _, _, _, _)
IndexLoop(store, p, order, i, command) ==
    LET next(r) == IF r.err # Ok THEN r
                   ELSE IndexLoop(store, r.p, order, i + 1, command)
    IN  IF i > Len(order) THEN [p |-> p, err |-> Ok, command |-> command]
        ELSE next(updateSecondaryIndex(store, p, order[i], command))

\* the orders in which a range over the map of indexes meets the non-primary
\* ones (the primary index is skipped by `continue`)
Secondary == {idx \in Indexing : ~idx.primary}
IndexOrders ==
    {o \in [1..Cardinality(Secondary) -> Secondary] :
        \A i, j \in DOMAIN o : i # j => o[i] # o[j]}

\* the switch of persistCommand on command.Action
ActionSwitch(p, command, ksuid) ==
    CASE command.action = Update -> updateDocument(p, command)
      [] command.action = Create -> createDocument(p, command, ksuid)
      [] command.action = Delete -> deleteDocument(p, command)
      [] command.action = Set -> setDocument(p, command)

\* transaction.persistCommand.  failing: the persist hook that errors on this
\* call; now: time.Now(); ksuid: ksuid.New()
persistCommand(store, p, isIndexing, command, failing, order, now, ksuid) ==
    IF isIndexing THEN IndexLoop(store, p, order, 1, command)
    ELSE IF applyPersistHooks(TRUE, failing)
    THEN [p |-> p, err |-> ErrHook, command |-> command]
    ELSE
      LET \* the after hooks, once every index is updated
          hooked(indexed) ==
              IF indexed.err # Ok THEN indexed
              ELSE IF applyPersistHooks(FALSE, failing)
              THEN [indexed EXCEPT !.err = ErrHook]
              ELSE indexed
          \* the loop over the indexes, once the primary key is written
          indexing(written) ==
              IF written.err # Ok THEN written
              ELSE hooked(IndexLoop(store, written.p, order, 1, written.command))
          \* the switch, once the before image is read
          switch(got) ==
              indexing(ActionSwitch(p,
                  [command EXCEPT
                      !.timestamp = IF @ = 0 THEN now ELSE @,
                      !.before = IF got.found THEN got.doc ELSE NewDocument],
                  ksuid))
      IN  switch(DBGet(store, command.collection, command.docID))

\* ----------------------------------------------------------------- state
VARIABLES
    kv,         \* the committed KV store: key -> value
    txState,    \* "idle" | "open": the write transaction of DB.Tx
    pending,    \* the writes of the open transaction
    clock,      \* time.Now(), one tick per command
    freshUsed,  \* ids ksuid.New() has handed out
    last,       \* the last API call and its result
    gh,         \* per docID, the last committed command and what it wrote
    txGh,       \* the same as seen inside the open transaction
    hookFailed, \* a persist hook returned an error in the last transaction
    txSeqs,     \* timestamps of the commands of the last transaction
    committed,  \* timestamps of the commands of committed transactions
    writers,    \* the concurrent write transactions of DB.Tx, per caller
    savers,     \* per caller, its saveDocument / persistCollection under way
    delivered,  \* the messages handed to a subscriber of "user", in order
    commitLog,  \* the events of "user" in the order their writes committed
    scan,       \* the query under way: its ready and building indexes, its where list
    optimization, \* the Optimization queryScan got for it
    handed      \* what the scan handed to the handler, or its error

\* the state of a query
planner == <<scan, optimization, handed>>

\* the state of the change stream
stream == <<savers, delivered, commitLog>>

\* the state only the concurrent callers and the change stream use
aux == <<writers, stream, planner>>

vars == <<kv, txState, pending, clock, freshUsed, last, gh, txGh, hookFailed,
          txSeqs, committed, aux>>

NoHistory == [live |-> FALSE, doc |-> NewDocument, act |-> "none", inTx |-> FALSE,
              hasSet |-> FALSE, setDoc |-> NewDocument, delAfterSet |-> FALSE]

\* the goroutines that call DB.Tx concurrently
Callers == {1, 2}

\* a caller outside DB.Tx.  p: the writes of its transaction; snap: the store
\* its transaction was opened on; reads: the keys read through its handle;
\* dirty: the keys committed by others since it was opened
NoWriter == [state |-> "idle", p |-> NoWrites, snap |-> <<>>, reads |-> {},
             dirty |-> {}]

\* a caller outside saveDocument and persistCollection.  ev: its event;
\* p: the writes of its transaction or batch
NoEvent == [seq |-> 0, id |-> Nil, doc |-> NewDocument]
NoSaver == [state |-> "idle", ev |-> NoEvent, p |-> NoWrites]

\* no query under way
NoQuery == [indexes |-> {}, where |-> <<>>, require |-> FALSE]
NoPlan == [index |-> Nil]
NoResult == [err |-> Ok, docs |-> {}]

NoCall == [op |-> "init", id |-> Nil, err |-> Ok, found |-> FALSE,
           doc |-> NewDocument, conflict |-> FALSE]

Init ==
    /\ kv = <<>>
    /\ txState = "idle"
    /\ pending = NoWrites
    /\ clock = 0
    /\ freshUsed = 0
    /\ last = NoCall
    /\ gh = [id \in DocIDs |-> NoHistory]
    /\ txGh = [id \in DocIDs |-> NoHistory]
    /\ hookFailed = FALSE
    /\ txSeqs = {}
    /\ committed = {}
    /\ writers = [w \in Callers |-> NoWriter]
    /\ savers = [g \in Callers |-> NoSaver]
    /\ delivered = <<>>
    /\ commitLog = <<>>
    /\ scan = NoQuery
    /\ optimization = NoPlan
    /\ handed = NoResult

\* the record of a command in the history of its docID
Record(h, command, passed) ==
    CASE command.action = Set ->
            [live |-> TRUE, doc |-> command.after, act |-> Set, inTx |-> TRUE,
             hasSet |-> TRUE, setDoc |-> passed, delAfterSet |-> FALSE]
      [] command.action = Delete ->
            [h EXCEPT !.live = FALSE, !.doc = NewDocument, !.act = Delete,
                      !.inTx = TRUE, !.delAfterSet = h.hasSet]
      [] OTHER ->
            [h EXCEPT !.live = TRUE, !.doc = command.after,
                      !.act = command.action, !.inTx = TRUE]

\* ksuid.New() had it handed out an id a caller already uses
NextKsuidInUse == "a"

\* the ksuid the next Create with an empty docID receives
NextKsuid == "k" \o ToString(freshUsed + 1)

\* the docIDs a caller can name: its own and the generated ones it was handed
KnownIDs == CallerIDs \cup {"k" \o ToString(i) : i \in 1..freshUsed}

\* the cdc document of a command: its primary key is an auto id
CdcID(now) == "c" \o ToString(now)
CdcEntry(command) == [collection |-> command.collection, timestamp |-> command.timestamp]

\* a live document of another docID holds the same values on a unique index
Conflict(command) ==
    \E idx \in Indexing : \E other \in DocIDs :
        /\ idx.unique /\ ~idx.primary
        /\ other # command.docID
        /\ txGh[other].live
        /\ SeekPrefix(User, idx, txGh[other].doc) = SeekPrefix(User, idx, command.after)

\* transaction.Set / Create / Update / Delete: persistCommand, then the command
\* is appended to the cdc collection through the same transaction handle
txMutationOf(store, p, c, action, docID, doc, failing, order, now, ksuid) ==
    LET append(r) ==
            IF r.err = Ok
            THEN [r EXCEPT !.p = TxSet(r.p, PrimaryPath(Cdc, CdcID(now)),
                                       CdcEntry(r.command))]
            ELSE r
    IN  append(persistCommand(store, p, FALSE,
                   [collection |-> c, action |-> action, docID |-> docID,
                    before |-> NewDocument, after |-> doc, timestamp |-> 0],
                   failing, order, now, ksuid))

\* the same on the user collection
txMutation(store, p, action, docID, doc, failing, order, now, ksuid) ==
    txMutationOf(store, p, User, action, docID, doc, failing, order, now, ksuid)

\* A mutation inside the callback of DB.Tx.  When it fails the callback returns
\* its error and badgerKV.Tx discards the transaction.
Mutate(action, docID, doc, failing, order) ==
    /\ txState = "open"
    /\ clock < MaxCmds
    /\ LET returned(r, id) ==
               /\ pending' = IF r.err = Ok THEN r.p ELSE NoWrites
               /\ txState' = IF r.err = Ok THEN "open" ELSE "idle"
               /\ kv' = IF r.err = Ok THEN kv ELSE KVTx(FALSE, kv, r.p, TRUE)
               /\ freshUsed' = IF id # docID THEN freshUsed + 1 ELSE freshUsed
               /\ last' = [op |-> action, id |-> id, err |-> r.err,
                           found |-> FALSE,
                           doc |-> IF action = Update THEN doc ELSE NewDocument,
                           conflict |-> action # Delete /\ Conflict(r.command)]
               /\ txGh' = IF r.err = Ok
                          THEN [txGh EXCEPT ![id] = Record(txGh[id], r.command, doc)]
                          ELSE gh
               /\ hookFailed' = (failing # NoHook /\ r.err \in {Ok, ErrHook})
           called(r) == returned(r, r.command.docID)
       IN  called(txMutation(kv, pending, action, docID, doc, failing, order,
                             clock + 1, NextKsuid))
    /\ clock' = clock + 1
    /\ txSeqs' = txSeqs \cup {clock + 1}
    /\ UNCHANGED <<gh, committed, aux>>

\* DB.Tx opens the write transaction and runs the callback
TxBegin ==
    /\ txState = "idle"
    /\ clock < MaxCmds
    /\ txState' = "open"
    /\ pending' = NoWrites
    /\ txGh' = [id \in DocIDs |-> [gh[id] EXCEPT !.inTx = FALSE]]
    /\ hookFailed' = FALSE
    /\ txSeqs' = {}
    /\ last' = [NoCall EXCEPT !.op = "begin"]
    /\ UNCHANGED <<kv, clock, freshUsed, gh, committed, aux>>

\* tx.Set(ctx, "user", doc)
TSet(doc, failing, order) == Mutate(Set, doc[PrimaryKey], doc, failing, order)

\* tx.Create(ctx, "user", doc): the docID may be empty
TCreate(doc, failing, order) ==
    /\ doc[PrimaryKey] = Nil => freshUsed < MaxFresh
    /\ Mutate(Create, doc[PrimaryKey], doc, failing, order)

\* tx.Update(ctx, "user", id, patch)
TUpdate(id, patch, failing, order) ==
    Mutate(Update, id, SetAll(NewDocument, patch), failing, order)

\* tx.Delete(ctx, "user", id)
TDelete(id, failing, order) == Mutate(Delete, id, NewDocument, failing, order)

\* tx.Get(ctx, "user", id) inside the callback
TxGetDoc(id) ==
    /\ txState = "open"
    /\ LET got == TGet(kv, pending, User, id)
       IN  last' = [op |-> "tget", id |-> id,
                    err |-> IF got.found THEN Ok ELSE "notfound",
                    found |-> got.found, doc |-> got.doc, conflict |-> FALSE]
    /\ UNCHANGED <<kv, txState, pending, clock, freshUsed, gh, txGh,
                   hookFailed, txSeqs, committed, aux>>

\* db.Get(ctx, "user", id): a reader of the committed store, at any time
DBGetDoc(id) ==
    /\ LET got == DBGet(kv, User, id)
       IN  last' = [op |-> "dbget", id |-> id,
                    err |-> IF got.found THEN Ok ELSE "notfound",
                    found |-> got.found, doc |-> got.doc, conflict |-> FALSE]
    /\ UNCHANGED <<kv, txState, pending, clock, freshUsed, gh, txGh,
                   hookFailed, txSeqs, committed, aux>>

\* the callback returns nil: badgerKV.Tx commits
Commit ==
    /\ txState = "open"
    /\ kv' = KVTx(FALSE, kv, pending, FALSE)
    /\ txState' = "idle"
    /\ pending' = NoWrites
    /\ gh' = [id \in DocIDs |-> [txGh[id] EXCEPT !.inTx = FALSE]]
    /\ txGh' = gh'
    /\ committed' = committed \cup txSeqs
    /\ last' = [NoCall EXCEPT !.op = "commit"]
    /\ UNCHANGED <<clock, freshUsed, hookFailed, txSeqs, aux>>

\* the callback returns an error of its own: badgerKV.Tx discards the
\* transaction
Rollback ==
    /\ txState = "open"
    /\ kv' = KVTx(FALSE, kv, pending, TRUE)
    /\ txState' = "idle"
    /\ pending' = NoWrites
    /\ txGh' = gh
    /\ last' = [NoCall EXCEPT !.op = "rollback"]
    /\ UNCHANGED <<clock, freshUsed, gh, hookFailed, txSeqs, committed, aux>>

Failing == HookNames \cup {NoHook}

Next ==
    \/ TxBegin
    \/ \E doc \in UserDocs, f \in Failing, o \in IndexOrders : TSet(doc, f, o)
    \/ \E doc \in UserDocs \cup NewUserDocs, f \in Failing, o \in IndexOrders :
            TCreate(doc, f, o)
    \/ \E id \in KnownIDs, patch \in Patches, f \in Failing, o \in IndexOrders :
            TUpdate(id, patch, f, o)
    \/ \E id \in KnownIDs, f \in Failing, o \in IndexOrders : TDelete(id, f, o)
    \/ \E id \in KnownIDs : TxGetDoc(id)
    \/ \E id \in KnownIDs : DBGetDoc(id)
    \/ Commit
    \/ Rollback

Spec == Init /\ [][Next]_vars

\* ------------------------------------------------ the cascade delete hook
\* the CRM of schema_test.go: users, their tasks, and cascadeDelete registered
\* as a before-persist hook on "user"
MaxCascade == 6

\* the user document of an id (distinct emails: the unique index never objects)
UserOf(id) == [id |-> id, email |-> IF id = "a" THEN "x" ELSE "y",
               name |-> "n", user |-> Nil]

\* the order in which the iterator meets the tasks
TaskOrder == <<"t1", "t2">>
TaskIdxOrder == <<TaskUserIdx>>

\* the plans the optimizer may hand to the query of the hook,
\* task where user == docID
TaskPlans(docID) ==
    {[index |-> PrimaryIdx, matched |-> <<>>],
     [index |-> TaskUserIdx, matched |-> [f \in {"user"} |-> docID]]}

\* the loop of cascadeDelete over results.Documents: tx.Delete(ctx, "task",
\* id) for each; `failAt` is the task whose Delete returns an error
RECURSIVE cascadeLoop(_, _, _, _, _, _)
cascadeLoop(store, p, ids, i, failAt, now) ==
    LET next(r) == IF r.err # Ok THEN r
                   ELSE cascadeLoop(store, r.p, ids, i + 1, failAt, now)
    IN  IF i > Len(TaskOrder) THEN [p |-> p, err |-> Ok]
        ELSE IF TaskOrder[i] \notin ids
        THEN cascadeLoop(store, p, ids, i + 1, failAt, now)
        ELSE IF TaskOrder[i] = failAt THEN [p |-> p, err |-> ErrHook]
        ELSE next(txMutationOf(store, p, Task, Delete, TaskOrder[i],
                               NewDocument, NoHook, TaskIdxOrder, now + i, Nil))

\* cascadeDelete had it run its query on the committed store
cascadeDeleteCommitted(store, p, command, plan, failAt, now) ==
    LET loop(results) ==
            IF results.err # Ok THEN [p |-> p, err |-> results.err]
            ELSE cascadeLoop(store, p, {d[PrimaryKey] : d \in results.docs},
                             1, failAt, now)
    IN  IF command.action # Delete THEN [p |-> p, err |-> Ok]
        ELSE loop(queryScanCommitted(store, p, Task, plan.index, plan.matched,
                      <<[field |-> "user", op |-> "==", value |-> command.docID]>>))

\* cascadeDelete: on a Delete, query the tasks of the user through the
\* transaction and delete each of them through the transaction
cascadeDelete(store, p, command, plan, failAt, now) ==
    LET loop(results) ==
            IF results.err # Ok THEN [p |-> p, err |-> results.err]
            ELSE cascadeLoop(store, p, {d[PrimaryKey] : d \in results.docs},
                             1, failAt, now)
    IN  IF command.action # Delete THEN [p |-> p, err |-> Ok]
        ELSE loop(queryScan(store, p, Task, plan.index, plan.matched,
                      <<[field |-> "user", op |-> "==", value |-> command.docID]>>))

\* a mutation of the CRM: on "user" the before hook runs first (persistCommand
\* calls applyPersistHooks before anything else), then the command itself
crmMutation(store, p, c, action, docID, doc, plan, failAt, now) ==
    LET persist(h) ==
            IF h.err # Ok THEN [p |-> h.p, err |-> h.err]
            ELSE txMutationOf(store, h.p, c, action, docID, doc, NoHook,
                              IF c = Task THEN TaskIdxOrder
                              ELSE CHOOSE o \in IndexOrders : TRUE,
                              now, Nil)
    IN  IF c = User
        THEN persist(cascadeDelete(store, p,
                         [collection |-> c, action |-> action, docID |-> docID],
                         plan, failAt, now))
        ELSE persist([p |-> p, err |-> Ok])

\* a call of the CRM inside the callback of DB.Tx; an error ends the callback
\* and badgerKV.Tx discards the transaction.  ticks: the timestamps the call
\* may use (one for the command, one for each nested Delete)
CrmMutate(op, c, action, docID, doc, plan, failAt, ticks) ==
    /\ txState = "open"
    /\ clock + ticks <= MaxCascade
    /\ LET returned(r) ==
               /\ pending' = IF r.err = Ok THEN r.p ELSE NoWrites
               /\ txState' = IF r.err = Ok THEN "open" ELSE "idle"
               /\ kv' = IF r.err = Ok THEN kv ELSE KVTx(FALSE, kv, r.p, TRUE)
               /\ last' = [op |-> op, id |-> docID, err |-> r.err,
                           found |-> FALSE, doc |-> doc, conflict |-> FALSE]
       IN  returned(crmMutation(kv, pending, c, action, docID, doc, plan,
                                failAt, clock + 1))
    /\ clock' = clock + ticks
    /\ UNCHANGED <<freshUsed, gh, txGh, hookFailed, txSeqs, committed, aux>>

\* db.Tx(ctx, true, fn) of the CRM
CrmBegin ==
    /\ txState = "idle"
    /\ clock < MaxCascade
    /\ txState' = "open"
    /\ pending' = NoWrites
    /\ last' = [NoCall EXCEPT !.op = "begin"]
    /\ UNCHANGED <<kv, clock, freshUsed, gh, txGh, hookFailed, txSeqs, committed, aux>>

\* tx.Set(ctx, "user", u)
CrmSetUser(id) ==
    CrmMutate("setuser", User, Set, id, UserOf(id),
              CHOOSE q \in TaskPlans(id) : TRUE, Nil, 1)

\* tx.Set(ctx, "task", tsk)
CrmSetTask(doc) ==
    CrmMutate("settask", Task, Set, doc[PrimaryKey], doc,
              CHOOSE q \in TaskPlans(Nil) : TRUE, Nil, 1)

\* tx.Delete(ctx, "task", id)
CrmDeleteTask(id) ==
    CrmMutate("deltask", Task, Delete, id, NewDocument,
              CHOOSE q \in TaskPlans(Nil) : TRUE, Nil, 1)

\* tx.Delete(ctx, "user", id): the hook cascades
CrmDeleteUser(id, plan, failAt) ==
    CrmMutate("deluser", User, Delete, id, NewDocument, plan, failAt,
              1 + Len(TaskOrder))

NextCascade ==
    \/ CrmBegin
    \/ \E id \in CallerIDs : CrmSetUser(id)
    \/ \E doc \in TaskDocs : CrmSetTask(doc)
    \/ \E id \in TaskIDs : CrmDeleteTask(id)
    \/ \E id \in CallerIDs : \E plan \in TaskPlans(id), failAt \in TaskIDs \cup {Nil} :
            CrmDeleteUser(id, plan, failAt)
    \/ Commit
    \/ Rollback

SpecCascade == Init /\ [][NextCascade]_vars

\* ------------------------------------------------ concurrent transactions
\* Two goroutines call DB.Tx at the same time.  badgerKV.Tx runs each callback
\* in db.Update: a transaction of its own on a snapshot of the store, committed
\* when the callback returns nil unless a key it read through its handle was
\* committed by another transaction in between.
MaxConc == 3

\* the keys a transaction writes or deletes
Touched(p) == DOMAIN p.w \cup p.d

\* the conflict detection of the commit
HasConflict(w) == writers[w].reads \cap writers[w].dirty # {}

ErrConflict == "conflict"

\* db.Tx(ctx, true, fn) of caller w
ConcBegin(w) ==
    /\ writers[w].state = "idle"
    /\ clock < MaxConc
    /\ writers' = [writers EXCEPT ![w] = [NoWriter EXCEPT !.state = "open",
                                                         !.snap = kv]]
    /\ last' = [NoCall EXCEPT !.op = "begin"]
    /\ UNCHANGED <<kv, txState, pending, clock, freshUsed, gh, txGh,
                   hookFailed, txSeqs, committed, stream, planner>>

\* tx.Create(ctx, "user", doc) of caller w, once in its transaction: the
\* before image and the unique scan are reads of the committed store in
\* transactions of their own, the writes go to the handle of w
ConcCreate(w, doc, order) ==
    /\ writers[w].state = "open"
    /\ clock < MaxConc
    /\ LET returned(r) ==
               /\ writers' = [writers EXCEPT ![w] =
                                 IF r.err = Ok
                                 THEN [@ EXCEPT !.p = r.p, !.state = "written"]
                                 ELSE NoWriter]
               /\ last' = [op |-> Create, id |-> doc[PrimaryKey], err |-> r.err,
                           found |-> FALSE, doc |-> doc, conflict |-> FALSE]
       IN  returned(txMutation(kv, writers[w].p, Create, doc[PrimaryKey], doc,
                               NoHook, order, clock + 1, Nil))
    /\ clock' = clock + 1
    /\ UNCHANGED <<kv, txState, pending, freshUsed, gh, txGh, hookFailed,
                   txSeqs, committed, stream, planner>>

\* tx.Get(ctx, "user", id) of caller w: a read through the handle, on its
\* snapshot, that the commit will check
ConcGet(w, id) ==
    /\ writers[w].state \in {"open", "written"}
    /\ writers' = [writers EXCEPT ![w].reads = @ \cup {PrimaryPath(User, id)}]
    /\ LET got == TGet(writers[w].snap, writers[w].p, User, id)
       IN  last' = [op |-> "tget", id |-> id,
                    err |-> IF got.found THEN Ok ELSE ErrNotFound,
                    found |-> got.found, doc |-> got.doc, conflict |-> FALSE]
    /\ UNCHANGED <<kv, txState, pending, clock, freshUsed, gh, txGh,
                   hookFailed, txSeqs, committed, stream, planner>>

\* the callback of caller w returns nil: db.Update commits, or fails with a
\* conflict and discards
ConcCommit(w) ==
    /\ writers[w].state \in {"open", "written"}
    /\ kv' = KVTx(FALSE, kv, writers[w].p, HasConflict(w))
    /\ writers' = [v \in Callers |->
                      IF v = w THEN NoWriter
                      ELSE IF writers[v].state = "idle" \/ HasConflict(w)
                      THEN writers[v]
                      ELSE [writers[v] EXCEPT
                               !.dirty = @ \cup Touched(writers[w].p)]]
    /\ last' = [NoCall EXCEPT !.op = "commit",
                              !.err = IF HasConflict(w) THEN ErrConflict ELSE Ok]
    /\ UNCHANGED <<txState, pending, clock, freshUsed, gh, txGh, hookFailed,
                   txSeqs, committed, stream, planner>>

\* the callback of caller w returns an error of its own
ConcRollback(w) ==
    /\ writers[w].state \in {"open", "written"}
    /\ writers' = [writers EXCEPT ![w] = NoWriter]
    /\ last' = [NoCall EXCEPT !.op = "rollback"]
    /\ UNCHANGED <<kv, txState, pending, clock, freshUsed, gh, txGh,
                   hookFailed, txSeqs, committed, stream, planner>>

NextConcurrent ==
    \/ \E w \in Callers : ConcBegin(w)
    \/ \E w \in Callers, doc \in UserDocs, o \in IndexOrders : ConcCreate(w, doc, o)
    \/ \E w \in Callers, id \in CallerIDs : ConcGet(w, id)
    \/ \E w \in Callers : ConcCommit(w)
    \/ \E w \in Callers : ConcRollback(w)

SpecConcurrent == Init /\ [][NextConcurrent]_vars

\* ------------------------------------------------------ the change stream
\* db.Set through saveDocument, and persistCollection, called from two
\* goroutines, with one subscriber of the channel "user" that keeps up
MaxStream == 3

\* the writes of one document: the primary key and, for every index, the key
\* of the stored document deleted and the key of the new one set; the value is
\* the document
RECURSIVE indexWrites(_, _, _, _, _)
indexWrites(p, order, i, current, ev) ==
    LET cleared(q) ==
            IF current.found
            THEN TxDelete(q, FullKey(SeekPrefix(User, order[i], current.doc), ev.id))
            ELSE q
        set(q) == TxSet(q, FullKey(SeekPrefix(User, order[i], ev.doc), ev.id),
                        Bytes(ev.doc))
    IN  IF i > Len(order) THEN p
        ELSE indexWrites(set(cleared(p)), order, i + 1, current, ev)

saveWrites(store, ev) ==
    indexWrites(TxSet(NoWrites, PrimaryPath(User, ev.id), Bytes(ev.doc)),
                CHOOSE o \in IndexOrders : TRUE, 1, DBGet(store, User, ev.id), ev)

\* machine.Publish on the channel of the collection: the message reaches the
\* handler of the subscriber
Publish(msgs, ev) == Append(msgs, ev)

\* db.Set -> saveDocument, up to the end of the function passed to kv.Update:
\* the document is validated, the writes go to the transaction and the event
\* is published
SaveDocumentRun(g, doc) ==
    /\ savers[g].state = "idle"
    /\ clock < MaxStream
    /\ ValidateCommand([collection |-> User, action |-> Set,
                        docID |-> doc[PrimaryKey], after |-> doc])
    /\ LET ev == [seq |-> clock + 1, id |-> doc[PrimaryKey], doc |-> doc]
       IN  /\ savers' = [savers EXCEPT ![g] = [state |-> "published", ev |-> ev,
                                               p |-> saveWrites(kv, ev)]]
           /\ delivered' = Publish(delivered, ev)
    /\ clock' = clock + 1
    /\ last' = [NoCall EXCEPT !.op = "save", !.id = doc[PrimaryKey]]
    /\ UNCHANGED <<kv, txState, pending, freshUsed, gh, txGh, hookFailed,
                   txSeqs, committed, writers, planner, commitLog>>

\* kv.Update commits the transaction of saveDocument, or returns the error of
\* the commit
SaveDocumentCommit(g, ok) ==
    /\ savers[g].state = "published"
    /\ kv' = KVTx(FALSE, kv, savers[g].p, ~ok)
    /\ commitLog' = IF ok THEN Append(commitLog, savers[g].ev.seq) ELSE commitLog
    /\ savers' = [savers EXCEPT ![g] = NoSaver]
    /\ last' = [NoCall EXCEPT !.op = "saved",
                              !.err = IF ok THEN Ok ELSE ErrConflict]
    /\ UNCHANGED <<txState, pending, clock, freshUsed, gh, txGh, hookFailed,
                   txSeqs, committed, writers, planner, delivered>>

\* persistCollection with one document in change.Sets, up to txn.Flush(): the
\* batch is written, or Flush returns an error and nothing is published
PersistFlush(g, doc, ok) ==
    /\ savers[g].state = "idle"
    /\ clock < MaxStream
    /\ ValidateCommand([collection |-> User, action |-> Set,
                        docID |-> doc[PrimaryKey], after |-> doc])
    /\ LET ev == [seq |-> clock + 1, id |-> doc[PrimaryKey], doc |-> doc]
       IN  /\ kv' = KVTx(FALSE, kv, saveWrites(kv, ev), ~ok)
           /\ savers' = [savers EXCEPT ![g] =
                            IF ok THEN [state |-> "flushed", ev |-> ev,
                                        p |-> NoWrites]
                            ELSE NoSaver]
           /\ commitLog' = IF ok THEN Append(commitLog, ev.seq) ELSE commitLog
    /\ clock' = clock + 1
    /\ last' = [NoCall EXCEPT !.op = "flush", !.id = doc[PrimaryKey],
                              !.err = IF ok THEN Ok ELSE ErrConflict]
    /\ UNCHANGED <<txState, pending, freshUsed, gh, txGh, hookFailed,
                   txSeqs, committed, writers, planner, delivered>>

\* persistCollection after Flush returned nil: machine.Publish
PersistPublish(g) ==
    /\ savers[g].state = "flushed"
    /\ delivered' = Publish(delivered, savers[g].ev)
    /\ savers' = [savers EXCEPT ![g] = NoSaver]
    /\ last' = [NoCall EXCEPT !.op = "publish", !.id = savers[g].ev.id]
    /\ UNCHANGED <<kv, txState, pending, clock, freshUsed, gh, txGh,
                   hookFailed, txSeqs, committed, writers, planner, commitLog>>

NextStream ==
    \/ \E g \in Callers, doc \in UserDocs : SaveDocumentRun(g, doc)
    \/ \E g \in Callers, ok \in BOOLEAN : SaveDocumentCommit(g, ok)
    \/ \E g \in Callers, doc \in UserDocs, ok \in BOOLEAN : PersistFlush(g, doc, ok)
    \/ \E g \in Callers : PersistPublish(g)

SpecStream == Init /\ [][NextStream]_vars

\* ------------------------------------------------------------- queries
\* db.Query on "user" through queryScan, for every where list of up to
\* MaxWhere clauses and every set of indexes the collection may declare
MaxWhere == 2

\* a composite index, and the email index while it is being built
NameEmailIdx == [name |-> "name_email_idx", fields |-> <<"name", "email">>,
                 primary |-> FALSE, unique |-> FALSE, building |-> FALSE]
EmailIdxBuilding == [EmailIdx EXCEPT !.building = TRUE]

IndexSets ==
    {{PrimaryIdx} \cup S : S \in {T \in SUBSET {EmailIdx, NameIdx, NameEmailIdx,
                                               EmailIdxBuilding} :
                                     ~(EmailIdx \in T /\ EmailIdxBuilding \in T)}}

\* the where clauses of the queries
Where1(f, op, v) == [field |-> f, op |-> op, value |-> v]
QueryClauses ==
    <<Where1("id", "==", "a"), Where1("id", "contains", "a"),
      Where1("email", "==", "x"), Where1("email", "==", "y"),
      Where1("email", "!=", "x"), Where1("email", "contains", "x"),
      Where1("email", "in", {"x", "y"}), Where1("email", ">", "x"),
      Where1("email", ">=", "x"), Where1("email", "<", "x"),
      Where1("email", "<=", "x"), Where1("email", ">", "y"),
      Where1("name", "==", "n"), Where1("name", "contains", "n"),
      Where1("name", ">", "n"), Where1("name", "<", "n"),
      Where1("name", "!=", "n"), Where1("name", "in", {"n"})>>

\* a where list, as the positions of its clauses in QueryClauses
WhereLists ==
    UNION {[1..n -> DOMAIN QueryClauses] : n \in 0..MaxWhere}
WhereOf(ixs) == [i \in 1..Len(ixs) |-> QueryClauses[ixs[i]]]

\* the store after the documents were set, each in a transaction of its own,
\* on a collection with the given ready indexes
StoredDocs == {{}, {UserOf("a")}, {UserOf("a"), UserOf("b")}}
StoreOf(docs, indexes) ==
    LET keyOf(idx, d) == FullKey(SeekPrefix(User, idx, d), d[PrimaryKey])
        docAt(k) == CHOOSE d \in docs : d[PrimaryKey] = TrailingDocID(k)
    IN  [k \in {keyOf(idx, d) : idx \in indexes, d \in docs} |->
            IF k[2] = PrimaryIdx.name THEN Bytes(docAt(k)) ELSE TrailingDocID(k)]

InitQuery ==
    /\ txState = "idle"
    /\ pending = NoWrites
    /\ clock = 0
    /\ freshUsed = 0
    /\ last = NoCall
    /\ gh = [id \in DocIDs |-> NoHistory]
    /\ txGh = [id \in DocIDs |-> NoHistory]
    /\ hookFailed = FALSE
    /\ txSeqs = {}
    /\ committed = {}
    /\ writers = [w \in Callers |-> NoWriter]
    /\ savers = [g \in Callers |-> NoSaver]
    /\ delivered = <<>>
    /\ commitLog = <<>>
    /\ \E indexes \in IndexSets, ixs \in WhereLists, docs \in StoredDocs,
          require \in BOOLEAN :
          /\ scan = [indexes |-> indexes, where |-> ixs, require |-> require]
          /\ kv = StoreOf(docs, getReadyIndexes(indexes))
    /\ optimization = NoPlan
    /\ handed = NoResult

\* the optimizer on a collection that sets x-require-index
\* (collectionSchema.RequireQueryIndex): a plan with no matched field and no
\* seek, the full scan of the primary index, is refused
ErrIndexRequired == "index_required"

IndexRequiredNever(require, q) == FALSE

IndexRequired(require, q) ==
    require /\ q.matched_fields = <<>> /\ q.seek_fields = <<>>

\* whether a plan with no matched field but a seek is refused as well is not
\* told by the code at hand: either may happen
IndexMayBeRequired(require, q) == require /\ q.matched_fields = <<>>

\* db.Query -> queryScan in a read transaction: the optimizer plans on the
\* ready indexes; its error ends the scan before the iterator is opened;
\* otherwise the scan walks the prefix of the plan
QueryScan ==
    /\ optimization = NoPlan /\ handed = NoResult
    /\ \E q \in Optimize(getReadyIndexes(scan.indexes), WhereOf(scan.where)) :
          \/ /\ ~IndexRequired(scan.require, q)
             /\ optimization' = q
             /\ handed' = queryScan(kv, NoWrites, User, q.index, q.matched_values,
                                    WhereOf(scan.where))
          \/ /\ IndexMayBeRequired(scan.require, q)
             /\ optimization' = NoPlan
             /\ handed' = [err |-> ErrIndexRequired, docs |-> {}]
    /\ last' = [NoCall EXCEPT !.op = "query"]
    /\ UNCHANGED <<kv, txState, pending, clock, freshUsed, gh, txGh, hookFailed,
                   txSeqs, committed, writers, stream, scan>>

NextQuery == QueryScan

SpecQuery == InitQuery /\ [][NextQuery]_vars

\* --------------------------------------------------- online index build
\* MaxBuild commands issued while an index of the collection is being built
MaxBuild == 3

\* metakeys.go: the keys of the context metadata
internalKey == "_internal"
isIndexingKey == "_is_indexing"

\* the flag had it never been read
isIndexingNever(ctx) == FALSE

\* isIndexing / md.Exists(isIndexingKey): the context carries the flag
isIndexing(ctx) == isIndexingKey \in ctx

\* the context of the build worker
IndexingCtx == {internalKey, isIndexingKey}

\* the orders in which persistCommand ranges over the non-primary indexes of
\* a collection
SecondaryOf(indexes) == {idx \in indexes : ~idx.primary}
OrdersOf(indexes) ==
    {o \in [1..Cardinality(SecondaryOf(indexes)) -> SecondaryOf(indexes)] :
        \A i, j \in DOMAIN o : i # j => o[i] # o[j]}

\* the collections one index of which is being built, of at most MaxBuildIndexes
\* indexes
MaxBuildIndexes == 3
BuildSets ==
    {S \in IndexSets :
        Cardinality(S) <= MaxBuildIndexes /\ \E idx \in S : idx.building}

\* the queries issued during the build
BuildWheres ==
    {w \in WhereLists :
        /\ Len(w) <= 1
        /\ \A i \in DOMAIN w : QueryClauses[w[i]].op \in {"==", ">"}}

\* the documents were stored before the index was declared: its keys are
\* missing until they are written again or backfilled
InitBuild ==
    /\ txState = "idle"
    /\ pending = NoWrites
    /\ clock = 0
    /\ freshUsed = 0
    /\ last = NoCall
    /\ gh = [id \in DocIDs |-> NoHistory]
    /\ txGh = [id \in DocIDs |-> NoHistory]
    /\ hookFailed = FALSE
    /\ txSeqs = {}
    /\ committed = {}
    /\ writers = [w \in Callers |-> NoWriter]
    /\ savers = [g \in Callers |-> NoSaver]
    /\ delivered = <<>>
    /\ commitLog = <<>>
    /\ \E indexes \in BuildSets, docs \in StoredDocs :
          /\ scan = [indexes |-> indexes, where |-> <<>>, require |-> FALSE]
          /\ kv = StoreOf(docs, getReadyIndexes(indexes))
    /\ optimization = NoPlan
    /\ handed = NoResult

\* db.Tx with one Set / Create / Update / Delete of a caller: persistCommand
\* ranges over every index the collection declares
BuildWrite(action, docID, doc, failing, order) ==
    /\ clock < MaxBuild
    /\ LET returned(r) ==
               /\ kv' = KVTx(FALSE, kv, r.p, r.err # Ok)
               /\ last' = [op |-> action, id |-> docID, err |-> r.err,
                           found |-> FALSE, doc |-> doc, conflict |-> FALSE]
               /\ hookFailed' = (r.err = ErrHook)
       IN  returned(txMutation(kv, NoWrites, action, docID, doc, failing, order,
                               clock + 1, NextKsuid))
    /\ clock' = clock + 1
    /\ optimization' = NoPlan
    /\ handed' = NoResult
    /\ UNCHANGED <<txState, pending, freshUsed, gh, txGh, txSeqs, committed,
                   writers, stream, scan>>

\* the command the build worker issues for a document its scan of the primary
\* index met: the document is set again, with no before image
BackfillCommand(id, doc) ==
    [collection |-> User, action |-> Set, docID |-> id, before |-> NoDocument,
     after |-> doc, timestamp |-> 0]

\* what the transaction of a backfill leaves in the store
Backfilled(store, r) == KVTx(FALSE, store, r.p, r.err # Ok)

\* the build worker meets a document and persists its command under the
\* indexing flag, in a transaction of its own
Backfill(id, failing, order) ==
    /\ clock < MaxBuild
    /\ DBGet(kv, User, id).found
    /\ LET returned(r) ==
               /\ kv' = Backfilled(kv, r)
               /\ last' = [op |-> "backfill", id |-> id, err |-> r.err,
                           found |-> TRUE, doc |-> r.command.after,
                           conflict |-> FALSE]
               /\ hookFailed' = (r.err = ErrHook)
       IN  returned(persistCommand(kv, NoWrites, isIndexing(IndexingCtx),
                                   BackfillCommand(id, DBGet(kv, User, id).doc),
                                   failing, order, clock + 1, NextKsuid))
    /\ clock' = clock + 1
    /\ optimization' = NoPlan
    /\ handed' = NoResult
    /\ UNCHANGED <<txState, pending, freshUsed, gh, txGh, txSeqs, committed,
                   writers, stream, scan>>

\* the build is over: the flag of the index clears
BuildDone ==
    /\ \E idx \in scan.indexes : idx.building
    /\ scan' = [scan EXCEPT
                   !.indexes = {[idx EXCEPT !.building = FALSE] : idx \in @}]
    /\ last' = [NoCall EXCEPT !.op = "built"]
    /\ optimization' = NoPlan
    /\ handed' = NoResult
    /\ UNCHANGED <<kv, txState, pending, clock, freshUsed, gh, txGh, hookFailed,
                   txSeqs, committed, writers, stream>>

\* a query during or after the build: the optimizer plans on the ready indexes
BuildQuery(ixs) ==
    /\ \E q \in Optimize(getReadyIndexes(scan.indexes), WhereOf(ixs)) :
          /\ optimization' = q
          /\ handed' = queryScan(kv, NoWrites, User, q.index, q.matched_values,
                                 WhereOf(ixs))
    /\ scan' = [scan EXCEPT !.where = ixs]
    /\ last' = [NoCall EXCEPT !.op = "query"]
    /\ UNCHANGED <<kv, txState, pending, clock, freshUsed, gh, txGh, hookFailed,
                   txSeqs, committed, writers, stream>>

NextBuild ==
    \/ \E doc \in UserDocs : \E o \in OrdersOf(scan.indexes) :
          \/ BuildWrite(Set, doc[PrimaryKey], doc, NoHook, o)
          \/ BuildWrite(Create, doc[PrimaryKey], doc, NoHook, o)
    \/ \E id \in CallerIDs, patch \in Patches : \E o \in OrdersOf(scan.indexes) :
          BuildWrite(Update, id, SetAll(NewDocument, patch), NoHook, o)
    \/ \E id \in CallerIDs : \E o \in OrdersOf(scan.indexes) :
          BuildWrite(Delete, id, NewDocument, NoHook, o)
    \/ \E id \in CallerIDs, f \in Failing : \E o \in OrdersOf(scan.indexes) :
          Backfill(id, f, o)
    \/ BuildDone
    \/ \E ixs \in BuildWheres : BuildQuery(ixs)

SpecBuild == InitBuild /\ [][NextBuild]_vars

\* ------------------------------------------------------------- ForEach
\* the values of a field that holds numbers, and the boundaries of the range
\* clauses on it
Numerals == {"1", "2", "3"}

\* the bytes of the values in lexicographic order
Collation == <<"1", "2", "3", "a", "b", "n", "x", "y">>
Rank(v) == CHOOSE i \in DOMAIN Collation : Collation[i] = v

\* bytes.Compare on two sequences of values
RECURSIVE BytesLess(_, _)
BytesLess(s, t) ==
    IF s = <<>> THEN t # <<>>
    ELSE IF t = <<>> THEN FALSE
    ELSE IF Head(s) = Head(t) THEN BytesLess(Tail(s), Tail(t))
    ELSE Rank(Head(s)) < Rank(Head(t))

\* the same on two keys of one index: the values first, the docID last
KeyLess(j, k) == BytesLess(Append(j[3], j[4]), Append(k[3], k[4]))

\* kv.IterOpts of queryScan: the prefix of the matched values, no seek, forward
NoSeek == <<>>
IterOpts(c, q) ==
    [prefix |-> SeekPrefix(c, q.index, q.matched_values), seek |-> NoSeek,
     reverse |-> FALSE]

\* tx.NewIterator(opts): the keys under the prefix, sorted lexicographically,
\* from the first one on, or from the last one back when Reverse is set
NewIterator(store, opts) ==
    LET keys == IterKeys(store, opts.prefix)
        before(j, k) == IF opts.reverse THEN KeyLess(k, j) ELSE KeyLess(j, k)
    IN  CHOOSE s \in [1..Cardinality(keys) -> keys] :
            \A i, j \in DOMAIN s : i < j => before(s[i], s[j])

\* the loop of queryScan over the iterator: `it` is the keys still ahead,
\* `seen` the documents the handler has received so far, in order
RECURSIVE forEachLoop(_, _, _, _, _, _, _)
forEachLoop(store, p, c, idx, wheres, it, seen) ==
    LET got == IF idx.primary
               THEN [found |-> TRUE,
                     doc |-> NewDocumentFromBytes(TxGet(store, p, Head(it)))]
               ELSE TGet(store, p, c, TrailingDocID(Head(it)))
        next(docs) == forEachLoop(store, p, c, idx, wheres, Tail(it), docs)
    IN  IF it = <<>> THEN [err |-> Ok, docs |-> seen]
        ELSE IF ~got.found THEN [err |-> ErrNotFound, docs |-> seen]
        ELSE IF Where(got.doc, wheres) THEN next(Append(seen, got.doc))
        ELSE next(seen)

\* transaction.queryScan with the callback of ForEach as its handler
forEachScan(store, p, c, q, wheres) ==
    forEachLoop(store, p, c, q.index, wheres,
                NewIterator(ApplyWrites(store, p), IterOpts(c, q)), <<>>)

\* the documents stored, their names numbers, and the range clauses asked
NumberedDocs ==
    {[id |-> i, email |-> UserOf(i).email, name |-> n, user |-> Nil] :
        i \in CallerIDs, n \in Numerals}
NumberedStores ==
    {S \in SUBSET NumberedDocs : \A d, e \in S : d.id = e.id => d = e}
RangeWheres ==
    {<<Where1("name", op, v)>> : op \in RangeOps, v \in Numerals}
ForEachIndexSets == {{PrimaryIdx}, {PrimaryIdx, NameIdx}, {PrimaryIdx, NameEmailIdx}}

\* scan.where holds the where list itself
InitForEach ==
    /\ txState = "idle"
    /\ pending = NoWrites
    /\ clock = 0
    /\ freshUsed = 0
    /\ last = NoCall
    /\ gh = [id \in DocIDs |-> NoHistory]
    /\ txGh = [id \in DocIDs |-> NoHistory]
    /\ hookFailed = FALSE
    /\ txSeqs = {}
    /\ committed = {}
    /\ writers = [w \in Callers |-> NoWriter]
    /\ savers = [g \in Callers |-> NoSaver]
    /\ delivered = <<>>
    /\ commitLog = <<>>
    /\ \E indexes \in ForEachIndexSets, wheres \in RangeWheres,
          docs \in NumberedStores :
          /\ scan = [indexes |-> indexes, where |-> wheres, require |-> FALSE]
          /\ kv = StoreOf(docs, indexes)
    /\ optimization = NoPlan
    /\ handed = [err |-> Ok, docs |-> <<>>]

\* db.ForEach: queryScan in a read transaction, the callback as its handler
ForEach ==
    /\ last.op = "init"
    /\ \E q \in Optimize(getReadyIndexes(scan.indexes), scan.where) :
          /\ optimization' = q
          /\ handed' = forEachScan(kv, NoWrites, User, q, scan.where)
    /\ last' = [NoCall EXCEPT !.op = "foreach"]
    /\ UNCHANGED <<kv, txState, pending, clock, freshUsed, gh, txGh, hookFailed,
                   txSeqs, committed, writers, stream, scan>>

NextForEach == ForEach

SpecForEach == InitForEach /\ [][NextForEach]_vars

\* ------------------------------------------------ the handler of a scan
\* queryScan with a handler that may ask to stop or return an error
ErrHandler == "handler"

\* what handlerFunc returns for a document: (shouldContinue, err)
Verdicts == [shouldContinue : BOOLEAN, err : {Ok, ErrHandler}]
HandlerFuncs == [CallerIDs -> Verdicts]

\* the loop of queryScan had it gone on after shouldContinue = false
RECURSIVE queryScanLoopNeverStops(_, _, _, _, _, _, _, _)
queryScanLoopNeverStops(store, p, c, idx, wheres, it, handlerFunc, seen) ==
    LET got == IF idx.primary
               THEN [found |-> TRUE,
                     doc |-> NewDocumentFromBytes(TxGet(store, p, Head(it)))]
               ELSE TGet(store, p, c, TrailingDocID(Head(it)))
        next(docs) == queryScanLoopNeverStops(store, p, c, idx, wheres, Tail(it),
                                              handlerFunc, docs)
        handled(verdict, docs) ==
            IF verdict.err # Ok THEN [err |-> verdict.err, docs |-> docs]
            ELSE next(docs)
    IN  IF it = <<>> THEN [err |-> Ok, docs |-> seen]
        ELSE IF ~got.found THEN [err |-> ErrNotFound, docs |-> seen]
        ELSE IF Where(got.doc, wheres)
        THEN handled(handlerFunc[got.doc[PrimaryKey]], Append(seen, got.doc))
        ELSE next(seen)

\* the loop of queryScan over the iterator: `it` is the keys still ahead,
\* `seen` the documents handlerFunc was called with so far.  An error of the
\* handler is returned; shouldContinue = false returns nil
RECURSIVE queryScanLoop(_, _, _, _, _, _, _, _)
queryScanLoop(store, p, c, idx, wheres, it, handlerFunc, seen) ==
    LET got == IF idx.primary
               THEN [found |-> TRUE,
                     doc |-> NewDocumentFromBytes(TxGet(store, p, Head(it)))]
               ELSE TGet(store, p, c, TrailingDocID(Head(it)))
        next(docs) == queryScanLoop(store, p, c, idx, wheres, Tail(it),
                                    handlerFunc, docs)
        handled(verdict, docs) ==
            IF verdict.err # Ok THEN [err |-> verdict.err, docs |-> docs]
            ELSE IF ~verdict.shouldContinue THEN [err |-> Ok, docs |-> docs]
            ELSE next(docs)
    IN  IF it = <<>> THEN [err |-> Ok, docs |-> seen]
        ELSE IF ~got.found THEN [err |-> ErrNotFound, docs |-> seen]
        ELSE IF Where(got.doc, wheres)
        THEN handled(handlerFunc[got.doc[PrimaryKey]], Append(seen, got.doc))
        ELSE next(seen)

HandlerIndexSets == {{PrimaryIdx}, {PrimaryIdx, NameIdx}}

InitHandler ==
    /\ txState = "idle"
    /\ pending = NoWrites
    /\ clock = 0
    /\ freshUsed = 0
    /\ last = NoCall
    /\ gh = [id \in DocIDs |-> NoHistory]
    /\ txGh = [id \in DocIDs |-> NoHistory]
    /\ hookFailed = FALSE
    /\ txSeqs = {}
    /\ committed = {}
    /\ writers = [w \in Callers |-> NoWriter]
    /\ savers = [g \in Callers |-> NoSaver]
    /\ delivered = <<>>
    /\ commitLog = <<>>
    /\ \E indexes \in HandlerIndexSets, wheres \in RangeWheres,
          docs \in NumberedStores, handlerFunc \in HandlerFuncs :
          /\ scan = [indexes |-> indexes, where |-> wheres, require |-> FALSE,
                     handlerFunc |-> handlerFunc]
          /\ kv = StoreOf(docs, indexes)
    /\ optimization = NoPlan
    /\ handed = [err |-> Ok, docs |-> <<>>]

\* transaction.queryScan(ctx, scan, handlerFunc) in a read transaction
ScanWithHandler ==
    /\ last.op = "init"
    /\ \E q \in Optimize(getReadyIndexes(scan.indexes), scan.where) :
          /\ optimization' = q
          /\ handed' = queryScanLoop(kv, NoWrites, User, q.index, scan.where,
                                     NewIterator(kv, IterOpts(User, q)),
                                     scan.handlerFunc, <<>>)
    /\ last' = [NoCall EXCEPT !.op = "scan"]
    /\ UNCHANGED <<kv, txState, pending, clock, freshUsed, gh, txGh, hookFailed,
                   txSeqs, committed, writers, stream, scan>>

NextHandler == ScanWithHandler

SpecHandler == InitHandler /\ [][NextHandler]_vars

\* -------------------------------------------------- order by and pages
\* MaxDocs documents reach the sort; their account_id and age are numbers
MaxDocs == 3
MaxLimit == 2
MaxPage == 2
AccountIDs == 1..2
Ages == 1..2
ResultIDs == <<"u1", "u2", "u3">>

Asc == "ASC"
Desc == "DESC"

\* the documents a scan collected, in the order of the scan
ResultLists ==
    UNION {{[i \in 1..n |-> [id |-> ResultIDs[i], account_id |-> a[i], age |-> g[i]]] :
               a \in [1..n -> AccountIDs], g \in [1..n -> Ages]} : n \in 0..MaxDocs}

\* the orderBy lists of a query: no field twice
OrderBys ==
    LET entries == {[field |-> f, direction |-> dir] :
                       f \in {"account_id", "age"}, dir \in {Asc, Desc}}
    IN  {<<>>} \cup {<<e>> : e \in entries}
        \cup {p \in {<<e, f>> : e \in entries, f \in entries} :
                 p[1].field # p[2].field}

\* compareField on two documents whose field holds a number (gjson.Number)
compareField(field, x, y) == x[field] > y[field]

\* sort.Slice(d, less): the documents in an order such that no document comes
\* after one it is less than; the order of the others is not guaranteed
\* ("The sort is not guaranteed to be stable").  `less` is the set of the
\* pairs <<x, y>> of documents with less(x, y)
sortSlice(d, less) ==
    LET n == Len(d)
        perms == {f \in [1..n -> 1..n] : \A i, j \in 1..n : i # j => f[i] # f[j]}
        sorted(s) == \A i, j \in 1..n :
                        i < j => <<s[i], s[j]>> \in less \/ <<s[j], s[i]>> \notin less
    IN  {s \in {[i \in 1..n |-> d[f[i]]] : f \in perms} : sorted(s)}

\* the pairs of documents of a list
PairsOf(d) == {<<d[i], d[j]>> : i, j \in DOMAIN d}

\* the less function of Documents.OrderBy: the first orderBy field on which
\* the two documents differ decides, by the direction of the first orderBy
OrderByLess(orderBys, x, y) ==
    LET differ == {k \in 1..Len(orderBys) : x[orderBys[k].field] # y[orderBys[k].field]}
        first == CHOOSE k \in differ : \A m \in differ : k <= m
        greater(k) == compareField(orderBys[k].field, x, y)
    IN  IF differ = {} THEN FALSE
        ELSE IF orderBys[1].direction = Desc THEN greater(first)
        ELSE ~greater(first)

\* Documents.OrderBy had it compared the first field only
OrderByFirstOnly(d, orderBys) ==
    IF Len(orderBys) = 0 THEN {d}
    ELSE sortSlice(d, {p \in PairsOf(d) : OrderByLess(<<orderBys[1]>>, p[1], p[2])})

\* Documents.OrderBy had it sorted ascending whatever the direction
OrderByAscending(d, orderBys) ==
    IF Len(orderBys) = 0 THEN {d}
    ELSE sortSlice(d, {p \in PairsOf(d) :
                          OrderByLess([orderBys EXCEPT ![1].direction = Asc],
                                      p[1], p[2])})

\* Documents.OrderBy: the lists sort.Slice may leave
OrderBy(d, orderBys) ==
    IF Len(orderBys) = 0 THEN {d}
    ELSE sortSlice(d, {p \in PairsOf(d) : OrderByLess(orderBys, p[1], p[2])})

\* the less function of schema.SortOrder: DESC sorts by compareField, ASC by
\* its negation
SortOrderLess(orderBy, x, y) ==
    IF orderBy.direction = Desc THEN compareField(orderBy.field, x, y)
    ELSE ~compareField(orderBy.field, x, y)

\* schema.SortOrder: one orderBy
SortOrder(orderBy, documents) ==
    IF orderBy.field = "" THEN {documents}
    ELSE sortSlice(documents, {p \in PairsOf(documents) :
                                  SortOrderLess(orderBy, p[1], p[2])})

\* lo.Slice(collection, start, end)
Slice(collection, start, end) ==
    LET size == Len(collection)
        from == IF start > size THEN size ELSE IF start < 0 THEN 0 ELSE start
        to == IF end > size THEN size ELSE IF end < 0 THEN 0 ELSE end
    IN  IF start >= end THEN <<>> ELSE SubSeq(collection, from + 1, to)

\* the page had it been cut off the head of the list whatever the page
PaginateFirstPage(results, limit, page) ==
    IF limit > 0 /\ Len(results) > limit THEN SubSeq(results, 1, limit)
    ELSE results

\* queryCollection after the sort: the slice of the page, then the limit
Paginate(results, limit, page) ==
    LET sliced == IF limit > 0 /\ page > 0
                  THEN Slice(results, limit * page, limit * page + limit)
                  ELSE results
    IN  IF limit > 0 /\ Len(sliced) > limit THEN SubSeq(sliced, 1, limit)
        ELSE sliced

\* the query: the documents collected, its orderBy list, its limit and page
InitOrder ==
    /\ txState = "idle"
    /\ pending = NoWrites
    /\ clock = 0
    /\ freshUsed = 0
    /\ last = NoCall
    /\ gh = [id \in DocIDs |-> NoHistory]
    /\ txGh = [id \in DocIDs |-> NoHistory]
    /\ hookFailed = FALSE
    /\ txSeqs = {}
    /\ committed = {}
    /\ writers = [w \in Callers |-> NoWriter]
    /\ savers = [g \in Callers |-> NoSaver]
    /\ delivered = <<>>
    /\ commitLog = <<>>
    /\ kv = <<>>
    /\ \E docs \in ResultLists, orderBys \in OrderBys, limit \in 0..MaxLimit,
          page \in 0..MaxPage :
          scan = [docs |-> docs, orderBy |-> orderBys, limit |-> limit,
                  page |-> page]
    /\ optimization = NoPlan
    /\ handed = [err |-> Ok, docs |-> <<>>, sorted |-> <<>>]

\* queryCollection once the scan is over: sort by the first orderBy, then
\* the page
QueryCollection ==
    /\ last.op = "init"
    /\ \E results \in SortOrder(IF Len(scan.orderBy) = 0
                                THEN [field |-> "", direction |-> Asc]
                                ELSE scan.orderBy[1], scan.docs) :
          handed' = [err |-> Ok, sorted |-> results,
                     docs |-> Paginate(results, scan.limit, scan.page)]
    /\ last' = [NoCall EXCEPT !.op = "query"]
    /\ UNCHANGED <<kv, txState, pending, clock, freshUsed, gh, txGh, hookFailed,
                   txSeqs, committed, writers, stream, scan, optimization>>

\* Documents.OrderBy on the documents collected
OrderByDocs ==
    /\ last.op = "init"
    /\ \E results \in OrderBy(scan.docs, scan.orderBy) :
          handed' = [err |-> Ok, sorted |-> results, docs |-> results]
    /\ last' = [NoCall EXCEPT !.op = "orderBy"]
    /\ UNCHANGED <<kv, txState, pending, clock, freshUsed, gh, txGh, hookFailed,
                   txSeqs, committed, writers, stream, scan, optimization>>

NextOrder == QueryCollection \/ OrderByDocs

SpecOrder == InitOrder /\ [][NextOrder]_vars

\* ------------------------------------------------------------ aggregates
\* the ages of the documents that are grouped: positive and negative
GroupAges == {-2, -1, 1, 2}

NoAggregate == "none"
AggregateSum == "sum"
AggregateCount == "count"
AggregateMin == "min"
AggregateMax == "max"
AggregateAvg == "avg"
ErrUnsupported == "unsupported_aggregate"

\* the documents a scan collected before they are grouped
GroupLists ==
    UNION {{[i \in 1..n |-> [id |-> ResultIDs[i], account_id |-> a[i], age |-> g[i]]] :
               a \in [1..n -> AccountIDs], g \in [1..n -> GroupAges]} : n \in 0..MaxDocs}

\* select [{account_id}, {age, fn, as age_fn}]; the alias of a plain field is
\* the field
SelectOf(fn) ==
    <<[field |-> "account_id", aggregate |-> NoAggregate, as |-> "account_id"],
      [field |-> "age", aggregate |-> fn, as |-> "age_" \o fn]>>
Selects ==
    {SelectOf(fn) : fn \in {AggregateSum, AggregateCount, AggregateMin,
                            AggregateMax, AggregateAvg}}

\* Document.GetFloat on a field that holds a number: 0 when it is absent
GetFloatAt(doc, field) == IF field \in DOMAIN doc THEN doc[field] ELSE 0

\* Document.Set
SetAt(doc, field, value) ==
    [f \in DOMAIN doc \cup {field} |-> IF f = field THEN value ELSE doc[f]]

\* the fields that hold numbers; the others hold strings
NumberFields == {"account_id", "age"}

\* cast.ToString(d.Get(field)): the digits of a number, a string as it is
castToString(doc, field) ==
    IF field \in NumberFields THEN ToString(doc[field]) ELSE doc[field]

\* strings.Join(values, sep)
RECURSIVE Join(_, _)
Join(values, sep) ==
    IF Len(values) = 0 THEN ""
    ELSE IF Len(values) = 1 THEN values[1]
    ELSE values[1] \o sep \o Join(Tail(values), sep)

\* Documents.GroupBy: the documents of each key, in their order; the key joins
\* the values of the fields, cast to strings, with "."
GroupKey(doc, fields) ==
    Join([i \in 1..Len(fields) |-> castToString(doc, fields[i])], ".")
GroupBy(documents, fields) ==
    LET keys == {GroupKey(documents[i], fields) : i \in DOMAIN documents}
        of(k) == LET same(doc) == GroupKey(doc, fields) = k
                 IN  SelectSeq(documents, same)
    IN  [k \in keys |-> of(k)]

\* the body of the loop over the aggregates: one select applied to the
\* aggregated document and the next one
applyAggregate(aggregated, next, agg) ==
    LET current == GetFloatAt(aggregated, agg.as)
        value == GetFloatAt(next, agg.field)
        set(v) == [err |-> Ok, doc |-> SetAt(aggregated, agg.as, v)]
    IN  CASE agg.aggregate = NoAggregate -> set(aggregated[agg.field])
          [] agg.aggregate = AggregateCount -> set(current + 1)
          [] agg.aggregate = AggregateMax ->
                set(IF value > current THEN value ELSE current)
          [] agg.aggregate = AggregateMin ->
                set(IF value < current THEN value ELSE current)
          [] agg.aggregate = AggregateSum -> set(current + value)
          [] OTHER -> [err |-> ErrUnsupported, doc |-> aggregated]

\* the loop over the aggregates for one document; `aliased`: the document is
\* the aggregated one itself (aggregated = next for the first document)
RECURSIVE aggregatesLoop(_, _, _, _, _)
aggregatesLoop(aggregated, next, aliased, aggregates, k) ==
    LET then(r) == IF r.err # Ok THEN r
                   ELSE aggregatesLoop(r.doc, next, aliased, aggregates, k + 1)
    IN  IF k > Len(aggregates) THEN [err |-> Ok, doc |-> aggregated]
        ELSE then(applyAggregate(aggregated,
                                 IF aliased THEN aggregated ELSE next,
                                 aggregates[k]))

\* the loop of Documents.Aggregate over the documents
RECURSIVE documentsLoop(_, _, _, _)
documentsLoop(d, i, aggregated, aggregates) ==
    LET then(r) == IF r.err # Ok THEN r
                   ELSE documentsLoop(d, i + 1, r.doc, aggregates)
    IN  IF i > Len(d) THEN [err |-> Ok, doc |-> aggregated]
        ELSE then(aggregatesLoop(IF i = 1 THEN d[1] ELSE aggregated, d[i],
                                 i = 1, aggregates, 1))

\* Documents.Aggregate had it left the first document out of the aggregates
AggregateFromSecond(d, aggregates) ==
    documentsLoop(d, 2, d[1], aggregates)

\* Documents.Aggregate on a group (never empty)
Aggregate(d, aggregates) == documentsLoop(d, 1, d[1], aggregates)

InitAggregate ==
    /\ txState = "idle"
    /\ pending = NoWrites
    /\ clock = 0
    /\ freshUsed = 0
    /\ last = NoCall
    /\ gh = [id \in DocIDs |-> NoHistory]
    /\ txGh = [id \in DocIDs |-> NoHistory]
    /\ hookFailed = FALSE
    /\ txSeqs = {}
    /\ committed = {}
    /\ writers = [w \in Callers |-> NoWriter]
    /\ savers = [g \in Callers |-> NoSaver]
    /\ delivered = <<>>
    /\ commitLog = <<>>
    /\ kv = <<>>
    /\ \E docs \in GroupLists, select \in Selects :
          scan = [docs |-> docs, groupBy |-> <<"account_id">>, select |-> select]
    /\ optimization = NoPlan
    /\ handed = NoResult

\* the query once the scan is over: the documents are grouped and each group
\* is reduced to one row; the first error is the result
AggregateQuery ==
    /\ last.op = "init"
    /\ LET grouped == GroupBy(scan.docs, scan.groupBy)
           reduced(k) == Aggregate(grouped[k], scan.select)
       IN  handed' = IF \E k \in DOMAIN grouped : reduced(k).err # Ok
                     THEN [err |-> ErrUnsupported, docs |-> {}]
                     ELSE [err |-> Ok,
                           docs |-> {reduced(k).doc : k \in DOMAIN grouped}]
    /\ last' = [NoCall EXCEPT !.op = "aggregate"]
    /\ UNCHANGED <<kv, txState, pending, clock, freshUsed, gh, txGh, hookFailed,
                   txSeqs, committed, writers, stream, scan, optimization>>

NextAggregate == AggregateQuery

SpecAggregate == InitAggregate /\ [][NextAggregate]_vars

\* ---------------------------------------------------------------- groups
\* Documents.GroupBy on documents whose fields hold strings, with and without
\* the "." the group key is joined by
Labels == {"a", "a.b", "b.c", "c"}
MaxGrouped == 2
LabelledLists ==
    UNION {{[i \in 1..n |-> [id |-> ResultIDs[i], kind |-> k[i], tag |-> t[i]]] :
               k \in [1..n -> Labels], t \in [1..n -> Labels]} : n \in 0..MaxGrouped}
GroupFields == {<<"kind">>, <<"tag">>, <<"kind", "tag">>, <<"tag", "kind">>}

InitGroup ==
    /\ kv = <<>>
    /\ txState = "idle"
    /\ pending = NoWrites
    /\ clock = 0
    /\ freshUsed = 0
    /\ last = NoCall
    /\ gh = [id \in DocIDs |-> NoHistory]
    /\ txGh = [id \in DocIDs |-> NoHistory]
    /\ hookFailed = FALSE
    /\ txSeqs = {}
    /\ committed = {}
    /\ writers = [w \in Callers |-> NoWriter]
    /\ savers = [g \in Callers |-> NoSaver]
    /\ delivered = <<>>
    /\ commitLog = <<>>
    /\ \E docs \in LabelledLists, fields \in GroupFields :
          scan = [docs |-> docs, groupBy |-> fields]
    /\ optimization = NoPlan
    /\ handed = [op |-> "none", grouped |-> <<>>]

\* documents.GroupBy(query.GroupBy)
GroupDocuments ==
    /\ last.op = "init"
    /\ handed' = [op |-> "GroupBy", grouped |-> GroupBy(scan.docs, scan.groupBy)]
    /\ last' = [NoCall EXCEPT !.op = "GroupBy"]
    /\ UNCHANGED <<kv, txState, pending, clock, freshUsed, gh, txGh, hookFailed,
                   txSeqs, committed, writers, stream, scan, optimization>>

NextGroup == GroupDocuments

SpecGroup == InitGroup /\ [][NextGroup]_vars

\* ---------------------------------------------------------------- SetAll
\* the two forms of Document.SetAll: the one on *Document, which the write
\* path calls (SetAll above), and the one on Document of the schema package
SetAllFields == {"email", "name", "user"}
SetAllValues == {"x", "y"}
\* the maps passed to SetAll, by path
ValueMaps == UNION {[S -> SetAllValues] : S \in SUBSET SetAllFields}
\* the documents SetAll is called on
SetAllDocs == UserDocs \cup {NewDocument}

\* Document.Set: sjson.Set(d.result.Raw, field, val), as a new document
DocumentSet(d, field, val) == [d EXCEPT ![field] = val]

\* the zero Document of `var doc Document`: every Get of it finds nothing
ZeroDocument == [f \in FieldSet |-> Nil]

\* the loop of Document.SetAll (schema): every turn assigns d.Set(k, val),
\* the receiver with that one entry set, to doc
RECURSIVE setAllLoop(_, _, _, _)
setAllLoop(d, flattened, order, doc) ==
    IF order = <<>> THEN doc
    ELSE setAllLoop(d, flattened, Tail(order),
                    DocumentSet(d, Head(order), flattened[Head(order)]))

\* Document.SetAll (schema): flat.Flatten, then the loop over the flattened
\* map in the order Go ranges over it
SetAllByValue(d, values, order) == setAllLoop(d, values, order, ZeroDocument)

\* the orders a map may be ranged over in
RangeOrders(values) ==
    {o \in [1..Cardinality(DOMAIN values) -> DOMAIN values] :
        \A i, j \in DOMAIN o : i # j => o[i] # o[j]}

InitSetAll ==
    /\ kv = <<>>
    /\ txState = "idle"
    /\ pending = NoWrites
    /\ clock = 0
    /\ freshUsed = 0
    /\ last = NoCall
    /\ gh = [id \in DocIDs |-> NoHistory]
    /\ txGh = [id \in DocIDs |-> NoHistory]
    /\ hookFailed = FALSE
    /\ txSeqs = {}
    /\ committed = {}
    /\ writers = [w \in Callers |-> NoWriter]
    /\ savers = [g \in Callers |-> NoSaver]
    /\ delivered = <<>>
    /\ commitLog = <<>>
    /\ \E d \in SetAllDocs, values \in ValueMaps : scan = [doc |-> d, values |-> values]
    /\ optimization = NoPlan
    /\ handed = [op |-> "none", doc |-> NewDocument]

\* (*Document).SetAll(values)
SetAllInPlace ==
    /\ last.op = "init"
    /\ handed' = [op |-> "*Document.SetAll", doc |-> SetAll(scan.doc, scan.values)]
    /\ last' = [NoCall EXCEPT !.op = "SetAll"]
    /\ UNCHANGED <<kv, txState, pending, clock, freshUsed, gh, txGh, hookFailed,
                   txSeqs, committed, writers, stream, scan, optimization>>

\* Document.SetAll(values) of the schema package
SetAllReturned ==
    /\ last.op = "init"
    /\ \E order \in RangeOrders(scan.values) :
          handed' = [op |-> "Document.SetAll",
                     doc |-> SetAllByValue(scan.doc, scan.values, order)]
    /\ last' = [NoCall EXCEPT !.op = "SetAll"]
    /\ UNCHANGED <<kv, txState, pending, clock, freshUsed, gh, txGh, hookFailed,
                   txSeqs, committed, writers, stream, scan, optimization>>

NextSetAll == SetAllInPlace \/ SetAllReturned

SpecSetAll == InitSetAll /\ [][NextSetAll]_vars

\* ---------------------------------------------------------- cancellation
ErrCanceled == "canceled"

\* ctx.Err()
ctxErr(cancelled) == IF cancelled THEN ErrCanceled ELSE Ok

\* the loops that walk an iterator under a context
QueryScanLoop == "queryScan"
AggregateLoop == "aggregateCollection"

\* a scan under way: the documents under its prefix, the position of its
\* iterator, whether its context was cancelled and where the iterator stood
\* then
InitCancel ==
    /\ txState = "idle"
    /\ pending = NoWrites
    /\ clock = 0
    /\ freshUsed = 0
    /\ last = NoCall
    /\ gh = [id \in DocIDs |-> NoHistory]
    /\ txGh = [id \in DocIDs |-> NoHistory]
    /\ hookFailed = FALSE
    /\ txSeqs = {}
    /\ committed = {}
    /\ writers = [w \in Callers |-> NoWriter]
    /\ savers = [g \in Callers |-> NoSaver]
    /\ delivered = <<>>
    /\ commitLog = <<>>
    /\ kv = <<>>
    /\ \E docs \in ResultLists, loop \in {QueryScanLoop, AggregateLoop} :
          scan = [loop |-> loop, docs |-> docs, i |-> 1, state |-> "running",
                  cancelled |-> FALSE, cancelledAt |-> 0]
    /\ optimization = NoPlan
    /\ handed = [err |-> Ok, docs |-> <<>>]

\* the loop of aggregateCollection returns nil once ctx.Err() is set; the loop
\* of queryScan never reads its context
LoopStops == scan.loop = AggregateLoop /\ ctxErr(scan.cancelled) # Ok

\* one turn of the loop: the document under the iterator is handed over (or
\* appended to the results) and the iterator moves on
ScanStep ==
    /\ scan.state = "running"
    /\ scan.i <= Len(scan.docs)
    /\ ~LoopStops
    /\ handed' = [handed EXCEPT !.docs = Append(@, scan.docs[scan.i])]
    /\ scan' = [scan EXCEPT !.i = @ + 1]
    /\ last' = [NoCall EXCEPT !.op = "next"]
    /\ UNCHANGED <<kv, txState, pending, clock, freshUsed, gh, txGh, hookFailed,
                   txSeqs, committed, writers, stream, optimization>>

\* the loop is left, at the end of the iterator or by the return of
\* aggregateCollection on ctx.Err(); either way the error returned is nil
ScanReturn ==
    /\ scan.state = "running"
    /\ scan.i > Len(scan.docs) \/ LoopStops
    /\ scan' = [scan EXCEPT !.state = "returned"]
    /\ handed' = [handed EXCEPT !.err = Ok]
    /\ last' = [NoCall EXCEPT !.op = "return"]
    /\ UNCHANGED <<kv, txState, pending, clock, freshUsed, gh, txGh, hookFailed,
                   txSeqs, committed, writers, stream, optimization>>

\* the caller cancels the context while the scan runs
Cancel ==
    /\ scan.state = "running"
    /\ ~scan.cancelled
    /\ scan' = [scan EXCEPT !.cancelled = TRUE, !.cancelledAt = scan.i]
    /\ last' = [NoCall EXCEPT !.op = "cancel"]
    /\ UNCHANGED <<kv, txState, pending, clock, freshUsed, gh, txGh, hookFailed,
                   txSeqs, committed, writers, stream, optimization, handed>>

NextCancel == ScanStep \/ ScanReturn \/ Cancel

SpecCancel == InitCancel /\ [][NextCancel]_vars

\* ------------------------------------------------------------ schema edits
\* collectionSchema: its construction from the x-indexing section, SetIndex,
\* DelIndex and the readers Indexing() and Bytes(), for two goroutines that
\* edit the index set while others read it
Editors == {1, 2}
\* calls of SetIndex and DelIndex over the whole run
MaxEdits == 3

ErrForbidden == "forbidden"

\* Index{}: the zero value of the index type
ZeroIndex == [name |-> "", fields |-> <<>>, primary |-> FALSE, unique |-> FALSE,
              building |-> FALSE]

\* the indexes callers declare and pass to SetIndex: email_idx, email_idx over
\* another field, email_idx flagged primary, name_idx, indexes without fields,
\* and indexes under the name of the primary index
EmailIdxOnName == [EmailIdx EXCEPT !.fields = <<"name">>]
EmailIdxPrimary == [EmailIdx EXCEPT !.primary = TRUE]
EmailIdxNoFields == [EmailIdx EXCEPT !.fields = <<>>]
PrimaryIdxOnEmail == [PrimaryIdx EXCEPT !.fields = <<"email">>, !.primary = FALSE]
EditIndexes == {PrimaryIdxOnEmail, EmailIdx, EmailIdxOnName, EmailIdxPrimary,
                EmailIdxNoFields, NameIdx}
EditNames == {idx.name : idx \in EditIndexes}

\* Index.Validate: an index has a name and at least one field
IndexValidate(index) ==
    IF index.name = "" \/ Len(index.fields) = 0 THEN ErrValidation ELSE Ok

\* the x-indexing section of the raw schema: a JSON object, here the list of
\* its members <<name, index>> in document order
XIndexing(indexes) == [i \in 1..Len(indexes) |-> <<indexes[i].name, indexes[i]>>]

\* the x-indexing sections schemas are built from: none, without a primary
\* index, with one, with two, with an index that fails Validate
Configs == {XIndexing(<<>>), XIndexing(<<EmailIdx>>), XIndexing(<<PrimaryIdx>>),
            XIndexing(<<PrimaryIdx, EmailIdx>>),
            XIndexing(<<PrimaryIdx, EmailIdx, NameIdx>>),
            XIndexing(<<PrimaryIdx, EmailIdxPrimary>>),
            XIndexing(<<PrimaryIdx, EmailIdxNoFields>>)}

\* safe.Map.Set / Del / AsMap: a map behind its own lock
MapSet(m, name, index) ==
    [n \in DOMAIN m \cup {name} |-> IF n = name THEN index ELSE m[n]]

MapDel(m, name) == [n \in DOMAIN m \ {name} |-> m[n]]

\* sjson.Set(raw, "x-indexing.<name>", index): the member is replaced in
\* place, or appended when the object has no such member
sjsonSet(raw, name, index) ==
    IF \E i \in 1..Len(raw) : raw[i][1] = name
    THEN [i \in 1..Len(raw) |-> IF raw[i][1] = name THEN <<name, index>> ELSE raw[i]]
    ELSE Append(raw, <<name, index>>)

\* sjson.Delete(raw, "x-indexing.<name>")
sjsonDelete(raw, name) ==
    LET keep(member) == member[1] # name
    IN  SelectSeq(raw, keep)

\* the indexes an x-indexing section describes, by name
RawIndexes(raw) ==
    [n \in {raw[i][1] : i \in 1..Len(raw)} |->
        raw[CHOOSE i \in 1..Len(raw) : raw[i][1] = n][2]]

\* the loop of newCollectionSchema over the members of x-indexing, in the
\* order the map of gjson hands them over
RECURSIVE decodeIndexes(_, _, _, _)
decodeIndexes(raw, order, k, s) ==
    IF k > Len(order) THEN s
    ELSE LET i == raw[order[k]][2]
         IN  IF IndexValidate(i) # Ok THEN [s EXCEPT !.err = ErrValidation]
             ELSE decodeIndexes(raw, order, k + 1,
                     [s EXCEPT !.primaryIndex = IF i.primary THEN i ELSE @,
                               !.indexing = MapSet(@, i.name, i)])

\* newCollectionSchema: the schema object, or the error it returns
newCollectionSchema(raw, order) ==
    LET s == decodeIndexes(raw, order, 1,
                 [err |-> Ok, primaryIndex |-> ZeroIndex, indexing |-> <<>>,
                  raw |-> raw])
    IN  IF s.err # Ok THEN s
        ELSE IF Len(s.primaryIndex.fields) = 0 THEN [s EXCEPT !.err = ErrValidation]
        ELSE s

\* the orders a Go map of n members may be ranged over in
MapOrders(n) ==
    {f \in [1..n -> 1..n] : \A i, j \in 1..n : i # j => f[i] # f[j]}

\* NewCollection(name, primaryKey, WithIndex(indexes...)): the indexes of the
\* collection, with primary_key_idx when none of them is flagged primary
DefaultPrimaryIdx(primaryKey) ==
    [name |-> "primary_key_idx", fields |-> <<primaryKey>>, primary |-> TRUE,
     unique |-> TRUE, building |-> FALSE]

RECURSIVE WithIndex(_, _, _)
WithIndex(m, indexes, k) ==
    IF k > Len(indexes) THEN m
    ELSE WithIndex(MapSet(m, indexes[k].name, indexes[k]), indexes, k + 1)

NewCollection(primaryKey, indexes) ==
    LET c == WithIndex(<<>>, indexes, 1)
        hasPrimary == \E n \in DOMAIN c : c[n].primary
    IN  IF ~hasPrimary
        THEN MapSet(c, "primary_key_idx", DefaultPrimaryIdx(primaryKey))
        ELSE c

\* the index lists passed to NewCollection
CollectionOpts == {<<>>, <<EmailIdx>>, <<EmailIdx, NameIdx>>, <<PrimaryIdx>>,
                   <<PrimaryIdx, EmailIdx>>, <<PrimaryIdx, EmailIdxPrimary>>}

\* c.mu.Lock() returns once no goroutine holds the mutex
muFreeAlways(mu) == TRUE

muFree(mu) == mu = 0

\* the guard of SetIndex and DelIndex on the name of the primary index
isPrimaryNameNever(name, primaryIndex) == FALSE

isPrimaryName(name, primaryIndex) == name = primaryIndex.name

\* an editor outside SetIndex and DelIndex
NoEdit == [kind |-> "none", name |-> "", index |-> ZeroIndex]

\* what an edit makes of the index map
Edited(m, edit) ==
    IF edit.kind = "SetIndex" THEN MapSet(m, edit.name, edit.index)
    ELSE MapDel(m, edit.name)

\* no schema yet.  pc: where each editor stands in SetIndex / DelIndex;
\* mu: the goroutine that holds c.mu (0: none); began: the index map as the
\* last edit left it, which is the one the edit under way began with; calls:
\* the calls of SetIndex and DelIndex so far
NoSchema == [state |-> "none", primaryIndex |-> ZeroIndex, indexing |-> <<>>,
             raw |-> <<>>, mu |-> 0, pc |-> [g \in Editors |-> "idle"],
             edit |-> [g \in Editors |-> NoEdit], began |-> <<>>, calls |-> 0]

NoRead == [op |-> "none", seen |-> <<>>, began |-> <<>>, edited |-> <<>>]

InitSchema ==
    /\ kv = <<>>
    /\ txState = "idle"
    /\ pending = NoWrites
    /\ clock = 0
    /\ freshUsed = 0
    /\ last = NoCall
    /\ gh = [id \in DocIDs |-> NoHistory]
    /\ txGh = [id \in DocIDs |-> NoHistory]
    /\ hookFailed = FALSE
    /\ txSeqs = {}
    /\ committed = {}
    /\ writers = [w \in Callers |-> NoWriter]
    /\ savers = [g \in Callers |-> NoSaver]
    /\ delivered = <<>>
    /\ commitLog = <<>>
    /\ scan = NoSchema
    /\ optimization = NoPlan
    /\ handed = NoRead

SchemaFrame == <<kv, txState, pending, clock, freshUsed, gh, txGh, hookFailed,
                 txSeqs, committed, writers, stream, optimization>>

\* newCollectionSchema(yamlContent)
NewSchema ==
    /\ scan.state = "none"
    /\ \E raw \in Configs :
       \E order \in MapOrders(Len(raw)) :
          LET s == newCollectionSchema(raw, order)
          IN  /\ scan' = IF s.err # Ok THEN [scan EXCEPT !.state = "failed"]
                         ELSE [scan EXCEPT !.state = "built",
                                           !.primaryIndex = s.primaryIndex,
                                           !.indexing = s.indexing,
                                           !.raw = s.raw,
                                           !.began = s.indexing]
              /\ last' = [NoCall EXCEPT !.op = "newCollectionSchema", !.err = s.err]
    /\ UNCHANGED <<SchemaFrame, handed>>

\* NewCollection(name, primaryKey, opts...)
NewCollectionCall ==
    /\ \E indexes \in CollectionOpts :
          handed' = [NoRead EXCEPT !.op = "NewCollection",
                                   !.seen = NewCollection("id", indexes),
                                   !.began = WithIndex(<<>>, indexes, 1)]
    /\ last' = [NoCall EXCEPT !.op = "NewCollection"]
    /\ UNCHANGED <<SchemaFrame, scan>>

\* SetIndex(index) up to c.mu.Lock(): an index that fails Validate is
\* returned at once
SetIndexCall(g, index) ==
    /\ scan.state = "built"
    /\ scan.pc[g] = "idle"
    /\ scan.calls < MaxEdits
    /\ IF IndexValidate(index) # Ok
       THEN /\ last' = [NoCall EXCEPT !.op = "SetIndex", !.id = index.name,
                                      !.err = ErrValidation]
            /\ scan' = [scan EXCEPT !.calls = @ + 1]
       ELSE /\ scan' = [scan EXCEPT !.pc[g] = "lock", !.calls = @ + 1,
                                    !.edit[g] = [kind |-> "SetIndex",
                                                 name |-> index.name,
                                                 index |-> index]]
            /\ last' = last
    /\ UNCHANGED <<SchemaFrame, handed>>

\* DelIndex(name) up to c.mu.Lock()
DelIndexCall(g, name) ==
    /\ scan.state = "built"
    /\ scan.pc[g] = "idle"
    /\ scan.calls < MaxEdits
    /\ scan' = [scan EXCEPT !.pc[g] = "lock", !.calls = @ + 1,
                            !.edit[g] = [kind |-> "DelIndex", name |-> name,
                                         index |-> ZeroIndex]]
    /\ last' = last
    /\ UNCHANGED <<SchemaFrame, handed>>

\* c.mu.Lock() and the guard on the primary index: Forbidden is returned (and
\* the deferred Unlock runs) when the name is that of the primary index
EditLock(g) ==
    /\ scan.pc[g] = "lock"
    /\ muFree(scan.mu)
    /\ IF isPrimaryName(scan.edit[g].name, scan.primaryIndex)
       THEN /\ scan' = [scan EXCEPT !.pc[g] = "idle", !.edit[g] = NoEdit]
            /\ last' = [NoCall EXCEPT !.op = scan.edit[g].kind,
                                      !.id = scan.edit[g].name,
                                      !.err = ErrForbidden]
       ELSE /\ scan' = [scan EXCEPT !.pc[g] = "raw", !.mu = g,
                                    !.began = scan.indexing]
            /\ last' = last
    /\ UNCHANGED <<SchemaFrame, handed>>

\* c.raw = gjson.Parse(sjson.Set / sjson.Delete (c.raw.Raw, path))
EditRaw(g) ==
    /\ scan.pc[g] = "raw"
    /\ scan' = [scan EXCEPT !.pc[g] = "map",
                            !.raw = IF scan.edit[g].kind = "SetIndex"
                                    THEN sjsonSet(@, scan.edit[g].name,
                                                  scan.edit[g].index)
                                    ELSE sjsonDelete(@, scan.edit[g].name)]
    /\ last' = last
    /\ UNCHANGED <<SchemaFrame, handed>>

\* c.indexing.Set(index.Name, index) / c.indexing.Del(name)
EditMap(g) ==
    /\ scan.pc[g] = "map"
    /\ scan' = [scan EXCEPT !.pc[g] = "unlock",
                            !.indexing = Edited(@, scan.edit[g])]
    /\ last' = last
    /\ UNCHANGED <<SchemaFrame, handed>>

\* return nil, with the deferred c.mu.Unlock()
EditUnlock(g) ==
    /\ scan.pc[g] = "unlock"
    /\ scan' = [scan EXCEPT !.pc[g] = "idle", !.edit[g] = NoEdit,
                            !.mu = IF @ = g THEN 0 ELSE @,
                            !.began = scan.indexing]
    /\ last' = [NoCall EXCEPT !.op = scan.edit[g].kind, !.id = scan.edit[g].name,
                              !.err = Ok]
    /\ UNCHANGED <<SchemaFrame, handed>>

\* the edits whose goroutine holds the lock
UnderWay == {g \in Editors : scan.pc[g] \in {"raw", "map", "unlock"}}

\* the index maps a reader may be shown: the one the edit under way began
\* with and the one it leaves
WholeEdits ==
    {scan.began} \cup {Edited(scan.began, scan.edit[g]) : g \in UnderWay}

\* Indexing(): c.indexing.AsMap(), taken without c.mu
ReadIndexing ==
    /\ scan.state = "built"
    /\ handed' = [op |-> "Indexing", seen |-> scan.indexing, began |-> scan.began,
                  edited |-> WholeEdits]
    /\ last' = [NoCall EXCEPT !.op = "Indexing"]
    /\ UNCHANGED <<SchemaFrame, scan>>

\* Bytes(): c.raw under c.mu.RLock(), which waits for the writer to unlock
ReadBytes ==
    /\ scan.state = "built"
    /\ muFree(scan.mu)
    /\ handed' = [op |-> "Bytes", seen |-> RawIndexes(scan.raw),
                  began |-> scan.began, edited |-> WholeEdits]
    /\ last' = [NoCall EXCEPT !.op = "Bytes"]
    /\ UNCHANGED <<SchemaFrame, scan>>

NextSchema ==
    \/ NewSchema
    \/ NewCollectionCall
    \/ \E g \in Editors, index \in EditIndexes : SetIndexCall(g, index)
    \/ \E g \in Editors, name \in EditNames : DelIndexCall(g, name)
    \/ \E g \in Editors : EditLock(g)
    \/ \E g \in Editors : EditRaw(g)
    \/ \E g \in Editors : EditMap(g)
    \/ \E g \in Editors : EditUnlock(g)
    \/ ReadIndexing
    \/ ReadBytes

SpecSchema == InitSchema /\ [][NextSchema]_vars

\* ------------------------------------------------------ the persist hooks
\* persistCommand with the hooks registered on "user", whatever their number,
\* their Before flags and the ones whose Func returns an error, and what each
\* Func is called with
MaxHooks == 3
\* commands over the whole run
MaxHookCmds == 2

\* db.persistHooks.Get("user"), in registration order.  fails: the Func of
\* the hook returns an error
HookLists == UNION {[1..n -> [before : BOOLEAN, fails : BOOLEAN]] : n \in 0..MaxHooks}

\* applyPersistHooks had it gone on after the error of a hook and returned
\* the error at the end
RECURSIVE applyPersistHooksPastErrors(_, _, _, _, _, _, _)
applyPersistHooksPastErrors(hooks, i, p, command, before, calls, err) ==
    LET called == Append(calls, [hook |-> i, p |-> p, command |-> command])
    IN  IF i > Len(hooks) THEN [calls |-> calls, err |-> err]
        ELSE IF hooks[i].before # before
        THEN applyPersistHooksPastErrors(hooks, i + 1, p, command, before, calls, err)
        ELSE applyPersistHooksPastErrors(hooks, i + 1, p, command, before, called,
                                         IF hooks[i].fails THEN ErrHook ELSE err)

\* the loop of applyPersistHooks from hook i on: the hooks whose Before flag
\* equals `before` are called in order, with the transaction handle (p: its
\* writes so far) and the command; the first error is returned
RECURSIVE applyPersistHooksFrom(_, _, _, _, _, _, _)
applyPersistHooksFrom(hooks, i, p, command, before, calls, err) ==
    LET called == Append(calls, [hook |-> i, p |-> p, command |-> command])
    IN  IF i > Len(hooks) THEN [calls |-> calls, err |-> err]
        ELSE IF hooks[i].before # before
        THEN applyPersistHooksFrom(hooks, i + 1, p, command, before, calls, err)
        ELSE IF hooks[i].fails THEN [calls |-> called, err |-> ErrHook]
        ELSE applyPersistHooksFrom(hooks, i + 1, p, command, before, called, err)

\* transaction.persistCommand outside the indexing flag, with the calls of
\* the hooks it made
persistCommandWith(store, p, hooks, command, order, now, ksuid) ==
    LET result(r, calls, err) ==
            [p |-> r.p, err |-> err, command |-> r.command, calls |-> calls]
        \* the after hooks, once every index is updated
        after(indexed, a) == result(indexed, a.calls, a.err)
        hooked(indexed, calls) ==
            IF indexed.err # Ok THEN result(indexed, calls, indexed.err)
            ELSE after(indexed,
                       applyPersistHooksFrom(hooks, 1, indexed.p, indexed.command,
                                             FALSE, calls, Ok))
        \* the loop over the indexes, once the primary key is written
        indexing(written, calls) ==
            IF written.err # Ok THEN result(written, calls, written.err)
            ELSE hooked(IndexLoop(store, written.p, order, 1, written.command), calls)
        \* the switch, once the before image is read
        switch(got, calls) ==
            indexing(ActionSwitch(p,
                [command EXCEPT
                    !.timestamp = IF @ = 0 THEN now ELSE @,
                    !.before = IF got.found THEN got.doc ELSE NewDocument],
                ksuid), calls)
        \* the before hooks come first
        first(b) ==
            IF b.err # Ok
            THEN [p |-> p, err |-> b.err, command |-> command, calls |-> b.calls]
            ELSE switch(DBGet(store, command.collection, command.docID), b.calls)
    IN  first(applyPersistHooksFrom(hooks, 1, p, command, TRUE, <<>>, Ok))

\* the documents passed to the writes: those of the callers and one without
\* the name the JSON schema requires
HookDocs == UserDocs \cup {[id |-> "a", email |-> "x", name |-> Nil, user |-> Nil]}

NoPersist == [op |-> "none", err |-> Ok, calls |-> <<>>, p |-> NoWrites,
              stored |-> NotFound, command |-> Nil]

InitHooks ==
    /\ kv = <<>>
    /\ txState = "idle"
    /\ pending = NoWrites
    /\ clock = 0
    /\ freshUsed = 0
    /\ last = NoCall
    /\ gh = [id \in DocIDs |-> NoHistory]
    /\ txGh = [id \in DocIDs |-> NoHistory]
    /\ hookFailed = FALSE
    /\ txSeqs = {}
    /\ committed = {}
    /\ writers = [w \in Callers |-> NoWriter]
    /\ savers = [g \in Callers |-> NoSaver]
    /\ delivered = <<>>
    /\ commitLog = <<>>
    /\ \E hooks \in HookLists : scan = [hooks |-> hooks]
    /\ optimization = NoPlan
    /\ handed = NoPersist

\* DB.Tx with one Set / Create / Update / Delete of a user in its callback:
\* the command the wrapper builds goes through persistCommand, and the
\* transaction commits when it returned nil
PersistHooked(action, doc, order) ==
    /\ clock < MaxHookCmds
    /\ LET command == [collection |-> User, action |-> action,
                       docID |-> doc[PrimaryKey], before |-> NewDocument,
                       after |-> IF action = Delete THEN NewDocument ELSE doc,
                       timestamp |-> 0]
           returned(r) ==
               /\ kv' = KVTx(FALSE, kv, r.p, r.err # Ok)
               /\ handed' = [op |-> action, err |-> r.err, calls |-> r.calls,
                             p |-> r.p,
                             stored |-> DBGet(kv, User, doc[PrimaryKey]),
                             command |-> r.command]
               /\ last' = [NoCall EXCEPT !.op = action, !.id = doc[PrimaryKey],
                                         !.err = r.err]
               /\ hookFailed' = (r.err = ErrHook)
       IN  returned(persistCommandWith(kv, NoWrites, scan.hooks, command, order,
                                       clock + 1, NextKsuid))
    /\ clock' = clock + 1
    /\ UNCHANGED <<txState, pending, freshUsed, gh, txGh, txSeqs, committed,
                   writers, stream, scan, optimization>>

NextHooks ==
    \E action \in {Set, Create, Update, Delete}, doc \in HookDocs,
       order \in IndexOrders : PersistHooked(action, doc, order)

SpecHooks == InitHooks /\ [][NextHooks]_vars

\* -------------------------------------------------------------- index diff
\* getIndexDiff: what separates the indexes a collection has (this) from the
\* indexes it is configured with (that)
DiffIndexes == {PrimaryIdx, EmailIdx, EmailIdxOnName, NameIdx}
\* the index maps, keyed by index name as WithIndex builds them
IndexMaps ==
    {m \in UNION {[S -> DiffIndexes] : S \in SUBSET {idx.name : idx \in DiffIndexes}} :
        \A n \in DOMAIN m : m[n].name = n}

\* the orders Go may range over the names of a map in
NameOrders(m) ==
    {o \in [1..Cardinality(DOMAIN m) -> DOMAIN m] :
        \A i, j \in DOMAIN o : i # j => o[i] # o[j]}

\* `i, ok := m[name]`: the entry, or the zero Index when there is none
Lookup(m, name) == IF name \in DOMAIN m THEN m[name] ELSE ZeroIndex

\* the first loop of getIndexDiff, over that: i is what the lookup in this
\* returned
RECURSIVE toAddLoop(_, _, _, _)
toAddLoop(this, that, order, toAdd) ==
    IF order = <<>> THEN toAdd
    ELSE LET index == that[Head(order)]
             i == Lookup(this, index.name)
         IN  toAddLoop(this, that, Tail(order),
                       IF index.name \notin DOMAIN this THEN Append(toAdd, i) ELSE toAdd)

\* the second loop, over this: i is what the lookup in that returned
RECURSIVE toRemoveLoop(_, _, _, _)
toRemoveLoop(this, that, order, diff) ==
    IF order = <<>> THEN diff
    ELSE LET current == this[Head(order)]
             i == Lookup(that, current.name)
         IN  toRemoveLoop(this, that, Tail(order),
                IF current.name \notin DOMAIN that
                THEN [diff EXCEPT !.toRemove = Append(@, i)]
                ELSE IF i.fields # current.fields
                     THEN [diff EXCEPT !.toUpdate = Append(@, i)]
                     ELSE diff)

getIndexDiff(this, that, thisOrder, thatOrder) ==
    LET diff == toRemoveLoop(this, that, thisOrder, [toRemove |-> <<>>, toUpdate |-> <<>>])
    IN  [toRemove |-> diff.toRemove,
         toAdd |-> toAddLoop(this, that, thatOrder, <<>>),
         toUpdate |-> diff.toUpdate]

NoDiff == [toRemove |-> <<>>, toAdd |-> <<>>, toUpdate |-> <<>>]

InitDiff ==
    /\ kv = <<>>
    /\ txState = "idle"
    /\ pending = NoWrites
    /\ clock = 0
    /\ freshUsed = 0
    /\ last = NoCall
    /\ gh = [id \in DocIDs |-> NoHistory]
    /\ txGh = [id \in DocIDs |-> NoHistory]
    /\ hookFailed = FALSE
    /\ txSeqs = {}
    /\ committed = {}
    /\ writers = [w \in Callers |-> NoWriter]
    /\ savers = [g \in Callers |-> NoSaver]
    /\ delivered = <<>>
    /\ commitLog = <<>>
    /\ \E this \in IndexMaps, that \in IndexMaps : scan = [this |-> this, that |-> that]
    /\ optimization = NoPlan
    /\ handed = NoDiff

\* getIndexDiff(this, that)
DiffIndexMaps ==
    /\ last.op = "init"
    /\ \E thisOrder \in NameOrders(scan.this), thatOrder \in NameOrders(scan.that) :
          handed' = getIndexDiff(scan.this, scan.that, thisOrder, thatOrder)
    /\ last' = [NoCall EXCEPT !.op = "getIndexDiff"]
    /\ UNCHANGED <<kv, txState, pending, clock, freshUsed, gh, txGh, hookFailed,
                   txSeqs, committed, writers, stream, scan, optimization>>

NextDiff == DiffIndexMaps

SpecDiff == InitDiff /\ [][NextDiff]_vars

\* ================================================================ claims
\* the keys of an index of the user collection that end in a docID
KeysOf(store, idx, id) ==
    {k \in DOMAIN store : k[1] = User /\ k[2] = idx.name /\ TrailingDocID(k) = id}

\* the keys of the user collection / of the cdc collection
UserPart(store) == [k \in {j \in DOMAIN store : j[1] = User} |-> store[k]]
CdcPart(store) == [k \in {j \in DOMAIN store : j[1] = Cdc} |-> store[k]]

\* C1: in every committed state, for every live document D and every
\* non-primary, non-building index I the store holds exactly one key of I that
\* ends in D's docID, the one that encodes D's field values; for a docID that
\* is not live it holds none.
SecondaryCoverage ==
    \A id \in DocIDs : \A idx \in Indexing :
        (~idx.primary /\ ~idx.building) =>
            IF DBGet(kv, User, id).found
            THEN KeysOf(kv, idx, id) =
                    {FullKey(SeekPrefix(User, idx, DBGet(kv, User, id).doc), id)}
            ELSE KeysOf(kv, idx, id) = {}

\* C2: in every committed state the primary index holds exactly one key for
\* every docID whose last committed command wrote a document, with the bytes of
\* that document as value, and no key (Get fails) for a docID whose last
\* committed command was a Delete or that was never written.
PrimaryUniqueness ==
    \A id \in DocIDs :
        IF gh[id].live
        THEN /\ KeysOf(kv, PrimaryIndex, id) = {PrimaryPath(User, id)}
             /\ kv[PrimaryPath(User, id)] = Bytes(gh[id].doc)
        ELSE /\ KeysOf(kv, PrimaryIndex, id) = {}
             /\ ~DBGet(kv, User, id).found

PrimaryUniquenessWitness ==
    /\ last.op = "commit"
    /\ \E id \in DocIDs : gh[id].act = Delete /\ gh[id].hasSet
    /\ \E id \in DocIDs : gh[id].live /\ PrimaryPath(User, id) \in DOMAIN kv

\* C3: in every committed state, for every unique non-primary index and every
\* tuple of values of its fields, at most one live docID has these values and
\* at most one key lies under the seek prefix of these values.
UniqueEnforcement ==
    \A idx \in Indexing : (idx.unique /\ ~idx.primary) =>
        /\ \A a, b \in DocIDs :
              (/\ DBGet(kv, User, a).found
               /\ DBGet(kv, User, b).found
               /\ SeekPrefix(User, idx, DBGet(kv, User, a).doc)
                    = SeekPrefix(User, idx, DBGet(kv, User, b).doc)) => a = b
        /\ \A k \in DOMAIN kv : (k[1] = User /\ k[2] = idx.name) =>
              Cardinality(IterKeys(kv, SubSeq(k, 1, 3))) <= 1

\* C4: a Set/Create/Update whose after image equals a different live document
\* (committed earlier or written earlier in the same transaction) on a unique
\* non-primary index returns an error to the caller.
UniqueViolationReported == last.conflict => last.err # Ok

\* C5: at every snapshot the cdc collection holds exactly one entry for each
\* command of a committed transaction and none for a command of a transaction
\* that was rolled back or is still open; and every step that makes a change
\* of the user collection visible makes cdc entries visible with it, every
\* step that adds cdc entries shows the effect of their transaction.
CdcSnapshot ==
    /\ {kv[k].timestamp : k \in DOMAIN CdcPart(kv)} = committed
    /\ Cardinality(DOMAIN CdcPart(kv)) = Cardinality(committed)
    /\ \A t \in (1..clock) \ committed :
          \A k \in DOMAIN CdcPart(kv) : kv[k].timestamp # t

CdcStep ==
    /\ UserPart(kv') # UserPart(kv) => CdcPart(kv') # CdcPart(kv)
    /\ CdcPart(kv') # CdcPart(kv) =>
          /\ {kv'[k].timestamp : k \in DOMAIN CdcPart(kv') \ DOMAIN CdcPart(kv)}
                = txSeqs
          /\ \A id \in DocIDs : txGh[id].inTx =>
                IF txGh[id].live
                THEN /\ DBGet(kv', User, id).found
                     /\ DBGet(kv', User, id).doc = txGh[id].doc
                ELSE ~DBGet(kv', User, id).found

HookRollbackStep ==
    /\ (txState = "open" /\ txState' = "open") => kv' = kv
    /\ (txState = "open" /\ hookFailed') => (txState' = "idle" /\ kv' = kv)

HookRollback == [][HookRollbackStep]_vars

HookRollbackWitness ==
    /\ hookFailed
    /\ txState = "idle"
    /\ last.err = ErrHook
    /\ Cardinality(txSeqs) >= 2

\* C7: a KV transaction is all-or-nothing: when the callback returns nil every
\* key it set holds the value it set last, every key it deleted is gone and
\* every other key is untouched, in one step; when it returns an error the
\* store is unchanged.
AllOrNothingStep ==
    (txState = "open" /\ txState' = "idle") =>
        IF last'.op = "commit"
        THEN /\ \A k \in DOMAIN pending.w : k \in DOMAIN kv' /\ kv'[k] = pending.w[k]
             /\ \A k \in pending.d : k \notin DOMAIN kv'
             /\ \A k \in (DOMAIN kv \cup DOMAIN kv') \ (DOMAIN pending.w \cup pending.d) :
                    k \in DOMAIN kv /\ k \in DOMAIN kv' /\ kv'[k] = kv[k]
        ELSE kv' = kv

AllOrNothing == [][AllOrNothingStep]_vars

AllOrNothingWitness ==
    /\ last.op = "commit"
    /\ Cardinality(txSeqs) >= 2
    /\ \E id \in DocIDs : gh[id].act = Delete /\ gh[id].hasSet

\* C8 as stated: Get returns the document passed to the last committed Set of
\* the docID unless a Delete of it was committed after that Set.
GetReturnsLastSet ==
    (last.op = "dbget" /\ gh[last.id].hasSet /\ ~gh[last.id].delAfterSet) =>
        (last.found /\ last.doc = gh[last.id].setDoc)

\* C8 amended: Get returns the document passed to the last committed Set of the
\* docID when no Delete, Update or Create of it was committed after that Set.
GetReturnsLastWrite ==
    (last.op = "dbget" /\ gh[last.id].act = Set) =>
        (last.found /\ last.doc = gh[last.id].setDoc)

GetReturnsLastWriteWitness ==
    /\ last.op = "dbget"
    /\ gh[last.id].act = Set
    /\ last.found
    /\ clock >= 2

\* C9: inside a write transaction, a Get of a docID whose last write is a
\* Create or Set of the same, uncommitted transaction succeeds and returns the
\* document that write stored.
ReadYourWrites ==
    (/\ last.op = "tget"
     /\ txGh[last.id].inTx
     /\ txGh[last.id].act \in {Create, Set}) =>
        (last.found /\ last.doc = txGh[last.id].doc)

ReadYourWritesWitness ==
    /\ last.op = "tget"
    /\ txState = "open"
    /\ txGh[last.id].inTx
    /\ txGh[last.id].act = Create
    /\ last.id \in FreshIDs
    /\ last.found

\* the store after one committed transaction of Set(doc) calls, the i-th at
\* time now + i; a failed Set rolls the transaction back
RECURSIVE SetLoop(_, _, _, _, _)
SetLoop(store, p, doc, n, now) ==
    LET next(r) == IF r.err # Ok THEN KVTx(FALSE, store, r.p, TRUE)
                   ELSE SetLoop(store, r.p, doc, n - 1, now + 1)
    IN  IF n = 0 THEN KVTx(FALSE, store, p, FALSE)
        ELSE next(txMutation(store, p, Set, doc[PrimaryKey], doc, NoHook,
                             CHOOSE o \in IndexOrders : TRUE, now + 1, Nil))

SetTx(store, doc, n, now) == SetLoop(store, NoWrites, doc, n, now)

\* C10 as stated: from every committed state, Set(D) twice (in one or in two
\* transactions) leaves the same KV keyspace as Set(D) once.
SetIdempotentKV ==
    \A doc \in UserDocs :
        /\ SetTx(kv, doc, 2, clock) = SetTx(kv, doc, 1, clock)
        /\ SetTx(SetTx(kv, doc, 1, clock), doc, 1, clock + 1) = SetTx(kv, doc, 1, clock)

\* C10 amended: Set(D) twice leaves the same primary and secondary index keys
\* of D's collection as Set(D) once; the cdc collection holds one more entry.
SetIdempotentIndexes ==
    \A doc \in UserDocs :
        LET same(once, sameTx, twoTx) ==
                /\ UserPart(sameTx) = UserPart(once)
                /\ UserPart(twoTx) = UserPart(once)
                /\ once # kv =>
                      /\ Cardinality(DOMAIN CdcPart(sameTx))
                            = Cardinality(DOMAIN CdcPart(once)) + 1
                      /\ Cardinality(DOMAIN CdcPart(twoTx))
                            = Cardinality(DOMAIN CdcPart(once)) + 1
            again(once) == same(once, SetTx(kv, doc, 2, clock),
                                SetTx(once, doc, 1, clock + 1))
        IN  again(SetTx(kv, doc, 1, clock))

SetIdempotentIndexesWitness ==
    /\ txState = "open"
    /\ last.op = Set
    /\ last.err = Ok
    /\ gh[last.id].act = Set
    /\ txGh[last.id].setDoc = gh[last.id].setDoc
    /\ UserPart(ApplyWrites(kv, pending)) = UserPart(kv)
    /\ \E id \in DocIDs : id # last.id /\ gh[id].live

\* C11: an Update that succeeds stores the merge of the patch into the document
\* the transaction currently holds for the docID: there is such a document,
\* every field of the patch takes the patch value and every other field keeps
\* the value it had.
UpdateMergesStep ==
    (txState = "open" /\ clock' # clock /\ last'.op = Update /\ last'.err = Ok) =>
        /\ TGet(kv, pending, User, last'.id).found
        /\ TGet(kv', pending', User, last'.id) =
              [found |-> TRUE,
               doc |-> SetAll(TGet(kv, pending, User, last'.id).doc,
                              Flatten(last'.doc))]

UpdateMerges == [][UpdateMergesStep]_vars

\* C12: a Create with an empty docID that succeeds returns an id under which
\* neither the store nor the transaction held a document, and the document it
\* stores carries that id in its primary-key field; once committed, Get of the
\* id finds a document whose primary-key field is the id.
CreateFreshStep ==
    (/\ txState = "open"
     /\ last'.op = Create
     /\ last'.err = Ok
     /\ freshUsed' = freshUsed + 1) =>
        /\ ~DBGet(kv, User, last'.id).found
        /\ ~TGet(kv, pending, User, last'.id).found
        /\ TGet(kv', pending', User, last'.id).found
        /\ TGet(kv', pending', User, last'.id).doc[PrimaryKey] = last'.id

CreatedReadable ==
    \A id \in DocIDs : (gh[id].act = Create /\ gh[id].live) =>
        /\ DBGet(kv, User, id).found
        /\ DBGet(kv, User, id).doc[PrimaryKey] = id

CreateFresh == [][CreateFreshStep]_vars /\ []CreatedReadable

CreateFreshWitness ==
    /\ last.op = "dbget"
    /\ last.id \in FreshIDs
    /\ last.found
    /\ last.doc[PrimaryKey] = last.id
    /\ gh[last.id].act = Create
    /\ \E id \in CallerIDs : gh[id].live

\* C13: a successful Delete of a user leaves, in the transaction and after its
\* commit, neither the user nor any task whose user field is its id, whatever
\* index the query of the hook used; when the hook or the Delete fails, the
\* transaction is discarded and the committed store is as before
NoTaskRefers(store, p, id) ==
    /\ ~TGet(store, p, User, id).found
    /\ \A t \in TaskIDs :
          TGet(store, p, Task, t).found => TGet(store, p, Task, t).doc["user"] # id

CascadeStep ==
    (txState = "open" /\ clock' # clock /\ last'.op = "deluser") =>
        IF last'.err = Ok
        THEN txState' = "open" /\ NoTaskRefers(kv', pending', last'.id)
        ELSE txState' = "idle" /\ kv' = kv /\ pending' = NoWrites

CascadeCommitStep ==
    (txState = "open" /\ last.op = "deluser" /\ last.err = Ok
        /\ last'.op = "commit") =>
        NoTaskRefers(kv', NoWrites, last.id)

CascadeDelete == [][CascadeStep /\ CascadeCommitStep]_vars

CascadeDeleteWitness ==
    /\ txState = "open" /\ last.op = "deluser" /\ last.err = Ok
    /\ DBGet(kv, User, last.id).found
    /\ \E t \in TaskIDs : /\ DBGet(kv, Task, t).found
                          /\ DBGet(kv, Task, t).doc["user"] = last.id
    /\ \E t \in TaskIDs : /\ ~DBGet(kv, Task, t).found
                          /\ PrimaryPath(Task, t) \in pending.d

\* C14: when write transactions run concurrently and each creates one
\* document, the committed store never holds two documents of different
\* docIDs with the same value on the unique index (email)
ConcurrentUnique ==
    \A id1, id2 \in CallerIDs :
        (/\ id1 # id2
         /\ DBGet(kv, User, id1).found
         /\ DBGet(kv, User, id2).found) =>
            DBGet(kv, User, id1).doc["email"] # DBGet(kv, User, id2).doc["email"]

\* C15: every command a subscriber has received belongs to a write that
\* committed successfully before it was published
PublishedAfterCommit ==
    \A i \in 1..Len(delivered) :
        \E j \in 1..Len(commitLog) : commitLog[j] = delivered[i].seq

\* C16: the commands a subscriber has received are in the order in which
\* their writes committed, each of them once
PositionIn(log, seq) == CHOOSE i \in 1..Len(log) : log[i] = seq

DeliveredSeqs == [i \in 1..Len(delivered) |-> delivered[i].seq]

DeliveredInCommitOrder ==
    /\ \A i, j \in 1..Len(delivered) : i # j => delivered[i].seq # delivered[j].seq
    /\ \A i, j \in 1..Len(commitLog) :
          (/\ i < j
           /\ \E k \in 1..Len(delivered) : delivered[k].seq = commitLog[i]
           /\ \E k \in 1..Len(delivered) : delivered[k].seq = commitLog[j]) =>
              PositionIn(DeliveredSeqs, commitLog[i])
                  < PositionIn(DeliveredSeqs, commitLog[j])

\* C17: in every committed store, for every where list and every plan the
\* optimizer may choose for it, the scan succeeds and hands over exactly the
\* stored documents of the collection that pass every clause
Clause(f, op, v) == [field |-> f, op |-> op, value |-> v]

ScanWheres ==
    <<<<>>,
      <<Clause("email", "==", "x")>>, <<Clause("email", "==", "y")>>,
      <<Clause("name", "==", "n")>>, <<Clause("id", "==", "a")>>,
      <<Clause("name", "contains", "n")>>, <<Clause("email", "!=", "x")>>,
      <<Clause("email", "in", {"x", "y"})>>,
      <<Clause("name", "==", "n"), Clause("email", "==", "x")>>,
      <<Clause("email", "==", "x"), Clause("name", ">=", "n")>>>>

LiveDocs(store, c, wheres) ==
    {DBGet(store, c, id).doc :
        id \in {i \in DocIDs : /\ DBGet(store, c, i).found
                               /\ Where(DBGet(store, c, i).doc, wheres)}}

ScanSound ==
    \A i \in DOMAIN ScanWheres :
        \A q \in Optimize(getReadyIndexes(Indexing), ScanWheres[i]) :
            queryScan(kv, NoWrites, User, q.index, q.matched_values, ScanWheres[i])
                = [err |-> Ok, docs |-> LiveDocs(kv, User, ScanWheres[i])]

\* C18 as written: the plan is on an index with the longest equality prefix
\* among the ready indexes, matched_fields is that prefix, and the plan is on
\* the primary index only when every secondary index has a shorter prefix
Ready == getReadyIndexes(scan.indexes)
Planned == optimization # NoPlan
Matched(idx) == PrefixLen(idx, WhereOf(scan.where))

LongestPrefix ==
    Planned =>
        /\ optimization.index \in Ready
        /\ \A idx \in Ready : Matched(idx) <= Matched(optimization.index)
        /\ optimization.matched_fields
              = SubSeq(optimization.index.fields, 1, Matched(optimization.index))
        /\ DOMAIN optimization.matched_values
              = {optimization.matched_fields[i] :
                    i \in 1..Len(optimization.matched_fields)}

LongestPrefixTieAlways ==
    /\ LongestPrefix
    /\ (Planned /\ optimization.index.primary) =>
          \A idx \in Ready :
              ~idx.primary => Matched(idx) < Matched(optimization.index)

\* C18 amended: the same, the tie going to a secondary index when the prefix
\* is not empty; with an empty prefix the plan may be on the primary index
LongestPrefixTie ==
    /\ LongestPrefix
    /\ (Planned /\ optimization.index.primary
            /\ Matched(optimization.index) > 0) =>
          \A idx \in Ready :
              ~idx.primary => Matched(idx) < Matched(optimization.index)

LongestPrefixTieWitness ==
    /\ Planned
    /\ optimization.index = EmailIdx
    /\ Matched(PrimaryIdx) = 1
    /\ optimization.matched_fields = <<"email">>

\* C19: when no ready index has an equality or range clause on its leading
\* field, the plan is the full scan of the primary index with no matched
\* field, and the scan hands over the stored documents that pass the clauses
NoLeadingClause ==
    \A idx \in Ready :
        ClausesOn(WhereOf(scan.where), idx.fields[1], EqOps \cup RangeOps) = {}

SeekRecorded ==
    (Planned /\ SeekClauses(optimization.index, WhereOf(scan.where)) # {}) =>
        /\ optimization.seek_fields
              = <<optimization.index.fields[Matched(optimization.index) + 1]>>
        /\ \E w \in SeekClauses(optimization.index, WhereOf(scan.where)) :
              /\ optimization.seek_values
                    = [f \in {optimization.seek_fields[1]} |-> w.value]
              /\ optimization.reverse = (w.op \in {"<", "<="})

SeekRecordedWitness ==
    /\ Planned
    /\ optimization.index = NameEmailIdx
    /\ optimization.matched_fields = <<"name">>
    /\ optimization.seek_fields = <<"email">>
    /\ optimization.reverse

\* C21 as written: a query whose plan has no matched field fails with
\* IndexRequired and hands over nothing when the collection requires an
\* index, and succeeds by a scan of the primary index when it does not
Queried == last.op = "query"

NoEqualityPrefix == \A idx \in Ready : Matched(idx) = 0

NoIndexMatches ==
    \A idx \in Ready :
        Matched(idx) = 0 /\ SeekClauses(idx, WhereOf(scan.where)) = {}

Written == last.op \in {Set, Create, Update, Delete} /\ last.err = Ok

BuildingMaintainedStep ==
    /\ Written' =>
          \A idx \in SecondaryOf(scan.indexes) :
              KeysOf(kv', idx, last'.id) =
                  IF last'.op = Delete THEN {}
                  ELSE {FullKey(SeekPrefix(User, idx,
                                           DBGet(kv', User, last'.id).doc),
                                last'.id)}
    /\ Queried' =>
          /\ optimization'.index \in scan.indexes
          /\ ~optimization'.index.building

BuildingMaintained == [][BuildingMaintainedStep]_vars

\* a query on the field of the index under build went by the primary index,
\* though a write had left the index a key already
BuildingMaintainedWitness ==
    /\ Queried
    /\ EmailIdxBuilding \in scan.indexes
    /\ WhereOf(scan.where) = <<Where1("email", "==", "x")>>
    /\ optimization.index = PrimaryIdx
    /\ \E id \in CallerIDs : KeysOf(kv, EmailIdxBuilding, id) # {}
    /\ handed.docs # {}

\* C23: a command persisted under the indexing flag changes only keys of the
\* secondary indexes of its collection: the primary index and the other
\* collections are as before, no persist hook is run (a hook that would fail
\* does not fail it), and persisting the same command once more changes
\* nothing
Backfilling == last.op = "backfill"

OutsideSecondary(store) ==
    {k \in DOMAIN store : k[1] # User \/ k[2] = PrimaryIdx.name}

BackfillStep ==
    Backfilling' =>
        /\ last'.err # ErrHook
        /\ OutsideSecondary(kv') = OutsideSecondary(kv)
        /\ \A k \in OutsideSecondary(kv) : kv'[k] = kv[k]
        /\ \A f \in Failing, o \in OrdersOf(scan.indexes) :
              Backfilled(kv', persistCommand(kv', NoWrites, isIndexing(IndexingCtx),
                                            BackfillCommand(last'.id, last'.doc),
                                            f, o, clock' + 1, Nil)) = kv'

BackfillOnlySecondary == [][BackfillStep]_vars

\* the first command of the build backfilled the key of a stored document
BackfillOnlySecondaryWitness ==
    /\ Backfilling /\ last.err = Ok /\ clock = 1
    /\ EmailIdxBuilding \in scan.indexes
    /\ KeysOf(kv, EmailIdxBuilding, last.id) =
           {FullKey(SeekPrefix(User, EmailIdxBuilding, last.doc), last.id)}
    /\ DBGet(kv, User, last.id).doc = last.doc

\* C24: ForEach with a range clause on the leading field of a ready index hands
\* the callback the matching documents in ascending order of the field when
\* the operator is > or >=, and in descending order when it is < or <=
ForEachDone == last.op = "foreach" /\ handed.err = Ok

RangeOnIndexed ==
    \E idx \in getReadyIndexes(scan.indexes) :
        ~idx.primary /\ idx.fields[1] = scan.where[1].field

Ascending(docs, f) ==
    \A i, j \in DOMAIN docs : i < j => GetFloat(docs[i][f]) <= GetFloat(docs[j][f])

Descending(docs, f) ==
    \A i, j \in DOMAIN docs : i < j => GetFloat(docs[i][f]) >= GetFloat(docs[j][f])

ForEachDirection ==
    (ForEachDone /\ RangeOnIndexed) =>
        /\ {handed.docs[i] : i \in DOMAIN handed.docs} =
               LiveDocs(kv, User, scan.where)
        /\ IF scan.where[1].op \in {">", ">="}
           THEN Ascending(handed.docs, scan.where[1].field)
           ELSE Descending(handed.docs, scan.where[1].field)

\* C25: with a limit L > 0 and a page p >= 0 the query returns the elements
\* p*L .. p*L+L-1 of the sorted list; so a page holds at most L documents, no
\* document is on two pages, and the pages 0, 1, 2, ... one after the other
\* are the sorted list
PageOf(sorted, limit, page) ==
    [i \in 1..(IF Len(sorted) - limit * page > limit THEN limit
               ELSE IF Len(sorted) - limit * page < 0 THEN 0
               ELSE Len(sorted) - limit * page) |-> sorted[limit * page + i]]

RECURSIVE PagesFrom(_, _, _)
PagesFrom(sorted, limit, page) ==
    IF limit * page >= Len(sorted) THEN <<>>
    ELSE Paginate(sorted, limit, page) \o PagesFrom(sorted, limit, page + 1)

Pagination ==
    (last.op = "query" /\ scan.limit > 0) =>
        /\ handed.docs = PageOf(handed.sorted, scan.limit, scan.page)
        /\ Len(handed.docs) <= scan.limit
        /\ PagesFrom(handed.sorted, scan.limit, 0) = handed.sorted
        /\ \A p, q \in 0..MaxDocs :
              p # q => \A i \in DOMAIN Paginate(handed.sorted, scan.limit, p),
                         j \in DOMAIN Paginate(handed.sorted, scan.limit, q) :
                         Paginate(handed.sorted, scan.limit, p)[i]
                             # Paginate(handed.sorted, scan.limit, q)[j]

\* the second page of three sorted documents, one document short of the limit
PaginationWitness ==
    /\ last.op = "query" /\ scan.limit = 2 /\ scan.page = 1
    /\ Len(handed.sorted) = 3 /\ handed.sorted # scan.docs
    /\ handed.docs = <<handed.sorted[3]>>

\* C26 as written: the documents of a query with an orderBy clause are
\* non-decreasing in the first orderBy field when its direction is asc and
\* non-increasing when it is desc, and documents with equal values on that
\* field keep the order they had in the input
Ordered == last.op \in {"query", "orderBy"} /\ Len(scan.orderBy) > 0

PositionOf(d, x) == CHOOSE i \in DOMAIN d : d[i] = x

InOrderOf(orderBy, s) ==
    \A i, j \in DOMAIN s :
        i < j => IF orderBy.direction = Asc
                 THEN s[i][orderBy.field] <= s[j][orderBy.field]
                 ELSE s[i][orderBy.field] >= s[j][orderBy.field]

SamePlaces(f, d, s) ==
    \A i, j \in DOMAIN s :
        (i < j /\ s[i][f] = s[j][f]) => PositionOf(d, s[i]) < PositionOf(d, s[j])

TwoKeysDesc ==
    /\ last.op = "orderBy" /\ Len(scan.orderBy) = 2
    /\ scan.orderBy[1].direction = Desc /\ scan.orderBy[2].direction = Desc

Aggregated(fn) == last.op = "aggregate" /\ scan.select[2].aggregate = fn

GroupOf(g) == LET same(doc) == doc.account_id = g IN SelectSeq(scan.docs, same)

GroupValues == {scan.docs[i].account_id : i \in DOMAIN scan.docs}

RECURSIVE SumOf(_, _)
SumOf(d, f) == IF d = <<>> THEN 0 ELSE Head(d)[f] + SumOf(Tail(d), f)

OneRowPerGroup ==
    /\ handed.err = Ok
    /\ {r.account_id : r \in handed.docs} = GroupValues
    /\ Cardinality(handed.docs) = Cardinality(GroupValues)

GroupSum ==
    Aggregated(AggregateSum) =>
        /\ OneRowPerGroup
        /\ \A r \in handed.docs :
              GetFloatAt(r, scan.select[2].as) = SumOf(GroupOf(r.account_id), "age")

\* two groups, one of two documents of opposite signs
GroupSumWitness ==
    /\ Aggregated(AggregateSum)
    /\ Cardinality(handed.docs) = 2
    /\ \E r \in handed.docs : Len(GroupOf(r.account_id)) = 2 /\ r.age_sum = -1

\* C29: for every group the count, min, max and avg aggregates of a field are
\* the number of its documents, the smallest value, the largest value and
\* sum / count of the field, in groups of positive values and in groups of
\* negative values alike
MinOf(d, f) == CHOOSE v \in {d[i][f] : i \in DOMAIN d} : \A i \in DOMAIN d : v <= d[i][f]

MaxOf(d, f) == CHOOSE v \in {d[i][f] : i \in DOMAIN d} : \A i \in DOMAIN d : v >= d[i][f]

GroupAggregates ==
    /\ Aggregated(AggregateCount) =>
          /\ OneRowPerGroup
          /\ \A r \in handed.docs : GetFloatAt(r, "age_count") = Len(GroupOf(r.account_id))
    /\ Aggregated(AggregateMin) =>
          /\ OneRowPerGroup
          /\ \A r \in handed.docs : GetFloatAt(r, "age_min") = MinOf(GroupOf(r.account_id), "age")
    /\ Aggregated(AggregateMax) =>
          /\ OneRowPerGroup
          /\ \A r \in handed.docs : GetFloatAt(r, "age_max") = MaxOf(GroupOf(r.account_id), "age")
    /\ Aggregated(AggregateAvg) =>
          /\ OneRowPerGroup
          /\ \A r \in handed.docs :
                GetFloatAt(r, "age_avg") * Len(GroupOf(r.account_id))
                    = SumOf(GroupOf(r.account_id), "age")

\* C30: a scan whose context is cancelled while documents are still ahead
\* stops at its next step and returns the cancellation error, never a
\* success
CancelledDuringScan ==
    /\ scan.state = "returned"
    /\ scan.cancelled /\ scan.cancelledAt <= Len(scan.docs)

CancelStopsScan ==
    CancelledDuringScan =>
        /\ handed.err = ErrCanceled
        /\ Len(handed.docs) = scan.cancelledAt - 1

\* C31: SetIndex and DelIndex under the name of the primary index return
\* Forbidden and leave the index map, the primary index and the serialized
\* x-indexing section as they were; an edit under any other name returns nil
\* and leaves the index map it began with, with that one index set or removed
\* and every other index as it was (the index passed Validate: SetIndex
\* returns the error of Validate before it looks at the name)
PrimaryForbiddenStep(g) ==
    scan.pc[g] = "lock" /\ scan'.pc[g] # "lock" =>
        IF scan.edit[g].name = scan.primaryIndex.name
        THEN /\ scan'.pc[g] = "idle"
             /\ last'.op = scan.edit[g].kind
             /\ last'.err = ErrForbidden
             /\ scan'.indexing = scan.indexing
             /\ scan'.raw = scan.raw
             /\ scan'.primaryIndex = scan.primaryIndex
        ELSE scan'.pc[g] = "raw"

OnlyThatIndex(before, after, edit) ==
    /\ \A n \in (DOMAIN before \cup DOMAIN after) \ {edit.name} :
          n \in DOMAIN before /\ n \in DOMAIN after /\ before[n] = after[n]
    /\ IF edit.kind = "SetIndex"
       THEN edit.name \in DOMAIN after /\ after[edit.name] = edit.index
       ELSE edit.name \notin DOMAIN after

ExactEditStep(g) ==
    scan.pc[g] = "unlock" /\ scan'.pc[g] = "idle" =>
        /\ last'.err = Ok
        /\ scan.edit[g].name # scan.primaryIndex.name
        /\ OnlyThatIndex(scan.began, scan'.indexing, scan.edit[g])
        /\ OnlyThatIndex(scan.began, RawIndexes(scan'.raw), scan.edit[g])
        /\ scan'.primaryIndex = scan.primaryIndex

PrimaryFlagged(m) == {n \in DOMAIN m : m[n].primary}

ExactlyOnePrimary ==
    /\ scan.state = "built" =>
          /\ Cardinality(PrimaryFlagged(scan.indexing)) = 1
          /\ PrimaryFlagged(scan.indexing) = {scan.primaryIndex.name}
          /\ scan.indexing[scan.primaryIndex.name] = scan.primaryIndex
    /\ scan.state = "failed" => last.err # Ok
    /\ handed.op = "NewCollection" /\ PrimaryFlagged(handed.began) = {} =>
          /\ PrimaryFlagged(handed.seen) = {"primary_key_idx"}
          /\ handed.seen["primary_key_idx"].fields = <<"id">>

\* C33: a reader of Indexing() or Bytes() is shown the index set as the edit
\* under way found it or as that edit leaves it, and once no edit is under
\* way the index map and the x-indexing section hold the same indexes
AtomicEdits ==
    /\ handed.op \in {"Indexing", "Bytes"} => handed.seen \in handed.edited
    /\ scan.state = "built" /\ (\A g \in Editors : scan.pc[g] \in {"idle", "lock"}) =>
          RawIndexes(scan.raw) = scan.indexing

\* Indexing() was read after the edit under way wrote the map and before it
\* unlocked, while the other editor waited for the lock
AtomicEditsWitness ==
    /\ handed.op = "Indexing"
    /\ handed.seen # handed.began
    /\ \E g, h \in Editors : scan.pc[g] = "lock" /\ scan.pc[h] = "unlock"

\* C34: the persist hooks of a command are called in registration order,
\* those flagged before while the command has written no key, those flagged
\* after once every key of the command is written; a hook that returns an
\* error is the last thing the command does: no later hook is called, no key
\* is written after it and the command returns its error
Persisted == handed.op \in {Set, Create, Update, Delete}

HookOf(call) == scan.hooks[call.hook]

\* the hooks of one flag that the command reached and that no failing hook
\* registered before them cut off
Reached(before) ==
    {i \in 1..Len(scan.hooks) :
        /\ scan.hooks[i].before = before
        /\ \A j \in 1..(i - 1) :
              scan.hooks[j].before = before => ~scan.hooks[j].fails}

HooksInOrder ==
    Persisted =>
        LET calls == handed.calls
            ran(before) == {calls[k].hook : k \in {j \in 1..Len(calls) :
                                                       HookOf(calls[j]).before = before}}
        IN  /\ \A k \in 1..Len(calls) : \A m \in 1..Len(calls) :
                  k < m => \/ calls[k].hook < calls[m].hook
                           \/ (HookOf(calls[k]).before /\ ~HookOf(calls[m]).before)
            /\ \A k \in 1..Len(calls) :
                  IF HookOf(calls[k]).before
                  THEN calls[k].p = NoWrites
                  ELSE calls[k].p = handed.p /\ handed.p # NoWrites
            /\ \A k \in 1..Len(calls) :
                  HookOf(calls[k]).fails =>
                      /\ k = Len(calls)
                      /\ handed.err = ErrHook
                      /\ handed.p = calls[k].p
            /\ ran(TRUE) = Reached(TRUE)
            /\ ran(FALSE) \in {{}, Reached(FALSE)}
            /\ handed.err = Ok => ran(FALSE) = Reached(FALSE)

\* a before hook and an after hook passed, and the after hook registered
\* behind them failed
HooksInOrderWitness ==
    /\ Persisted
    /\ Len(handed.calls) = 3
    /\ handed.err = ErrHook
    /\ HookOf(handed.calls[1]).before
    /\ ~HookOf(handed.calls[3]).before

\* C35: whenever a persist hook is called, before or after, the before field
\* of its command is the document stored under the docID when the
\* transaction read it (the empty document when none is stored), and for a
\* Delete the after field is that last image
HookSeesBefore ==
    Persisted =>
        \A k \in 1..Len(handed.calls) :
            /\ handed.calls[k].command.before =
                  (IF handed.stored.found THEN handed.stored.doc ELSE NewDocument)
            /\ handed.op = Delete /\ handed.stored.found =>
                  handed.calls[k].command.after = handed.stored.doc

\* C36: a Set, Create, Update or Delete of a document that succeeds changes,
\* among the writes of its transaction, only keys of its collection that end
\* in its docID, and the key of the cdc entry appended for it: no primary or
\* secondary key of another docID is set, deleted or given another value
WriteOf(p, k) ==
    IF k \in DOMAIN p.w THEN <<"set", p.w[k]>>
    ELSE IF k \in p.d THEN <<"deleted">>
    ELSE <<"untouched">>

ChangedKeys(p, q) ==
    {k \in DOMAIN p.w \cup DOMAIN q.w \cup p.d \cup q.d : WriteOf(p, k) # WriteOf(q, k)}

FrameStep ==
    clock' = clock + 1 /\ last'.err = Ok =>
        /\ kv' = kv
        /\ \A k \in ChangedKeys(pending, pending') :
              \/ k[1] = User /\ TrailingDocID(k) = last'.id
              \/ k[1] = Cdc

OnlyOwnKeys == [][FrameStep]_vars

\* b was written while a is stored under the primary and the secondary
\* indexes, and its transaction holds keys of b only, and the cdc entry
OnlyOwnKeysWitness ==
    /\ last.op \in {Set, Create, Update} /\ last.err = Ok /\ last.id = "b"
    /\ \E k \in DOMAIN kv : k[1] = User /\ k[2] = EmailIdx.name /\ TrailingDocID(k) = "a"
    /\ \E k \in DOMAIN pending.w : k[2] = EmailIdx.name /\ TrailingDocID(k) = "b"
    /\ \E k \in DOMAIN pending.w : k[1] = Cdc

\* C37: two documents are put in the same group if and only if they hold
\* equal values on every groupBy field
SameGroup(i, j) ==
    \E k \in DOMAIN handed.grouped :
        /\ \E m \in DOMAIN handed.grouped[k] : handed.grouped[k][m] = scan.docs[i]
        /\ \E m \in DOMAIN handed.grouped[k] : handed.grouped[k][m] = scan.docs[j]

SameValues(i, j) ==
    \A n \in DOMAIN scan.groupBy :
        scan.docs[i][scan.groupBy[n]] = scan.docs[j][scan.groupBy[n]]

GroupsByValues ==
    handed.op = "GroupBy" =>
        \A i, j \in DOMAIN scan.docs : SameGroup(i, j) <=> SameValues(i, j)

\* C38: when the handler of a scan returns shouldContinue = false the scan
\* stops there and returns nil, when it returns an error the scan stops and
\* returns that error; the handler is called for no later document, and for
\* every matching document when it never asks to stop
Scanned == last.op = "scan"

Matching ==
    {d \in NumberedDocs :
        /\ PrimaryPath(User, d[PrimaryKey]) \in DOMAIN kv
        /\ DBGet(kv, User, d[PrimaryKey]).doc = d
        /\ Where(d, scan.where)}

VerdictOn(doc) == scan.handlerFunc[doc[PrimaryKey]]

HandlerStopsScan ==
    Scanned =>
        LET calls == handed.docs
            n == Len(calls)
        IN  /\ \A k \in 1..n : calls[k] \in Matching
            /\ \A k, m \in 1..n : k # m => calls[k] # calls[m]
            /\ \A k \in 1..(n - 1) :
                  VerdictOn(calls[k]).shouldContinue /\ VerdictOn(calls[k]).err = Ok
            /\ n > 0 /\ VerdictOn(calls[n]).err # Ok =>
                  handed.err = VerdictOn(calls[n]).err
            /\ n > 0 /\ VerdictOn(calls[n]).err = Ok => handed.err = Ok
            /\ n = 0 => handed.err = Ok
            /\ (\A k \in 1..n : VerdictOn(calls[k]).shouldContinue
                                   /\ VerdictOn(calls[k]).err = Ok) =>
                  {calls[k] : k \in 1..n} = Matching

\* two documents match and the handler asked to stop at the first one
HandlerStopsScanWitness ==
    /\ Scanned
    /\ Cardinality(Matching) = 2
    /\ Len(handed.docs) = 1
    /\ ~VerdictOn(handed.docs[1]).shouldContinue
    /\ VerdictOn(handed.docs[1]).err = Ok
    /\ handed.err = Ok

\* C39: after SetAll the document holds, under every path of the map, the
\* value the map gives it, and under every other path what it held before
SetAllApplied(doc) ==
    \A f \in FieldSet :
        doc[f] = IF f \in DOMAIN scan.values THEN scan.values[f] ELSE scan.doc[f]

SetAllAppliesAll ==
    last.op = "SetAll" => SetAllApplied(handed.doc)

\* C40: getIndexDiff returns as toAdd exactly the indexes of that whose name
\* this lacks, as toRemove exactly the indexes of this whose name that lacks,
\* and as toUpdate the indexes held by both under different field lists, each
\* entry being the index definition itself
Entries(list) == {list[i] : i \in 1..Len(list)}

IndexDiffExact ==
    last.op = "getIndexDiff" =>
        LET this == scan.this
            that == scan.that
            changed == {n \in DOMAIN this \cap DOMAIN that : this[n].fields # that[n].fields}
        IN  /\ Len(handed.toAdd) = Cardinality(DOMAIN that \ DOMAIN this)
            /\ Entries(handed.toAdd) = {that[n] : n \in DOMAIN that \ DOMAIN this}
            /\ Len(handed.toRemove) = Cardinality(DOMAIN this \ DOMAIN that)
            /\ Entries(handed.toRemove) = {this[n] : n \in DOMAIN this \ DOMAIN that}
            /\ Len(handed.toUpdate) = Cardinality(changed)
            /\ {idx.name : idx \in Entries(handed.toUpdate)} = changed
            /\ \A idx \in Entries(handed.toUpdate) :
                  idx \in {this[idx.name], that[idx.name]}

====
